---- MODULE Spec2Model ----
(***************************************************************************)
(* State-machine model of the displayboard / skaven diorama controller:    *)
(* the ambient behaviour loops (sounds.py, lighting.py, bell.py), the      *)
(* video supervisor (video_loop.py) and the orchestrator (skaven/main.py). *)
(* Every thread of the program has a program counter pc[t]; one action     *)
(* models one step of the code between two points where another thread,    *)
(* the supervised subprocess or a KeyboardInterrupt can be observed.       *)
(***************************************************************************)
EXTENDS Integers, FiniteSets, Sequences, TLC

\* ------------------------------------------------------------------ bounds
\* sound categories (of ambient, chains, main, rats) that have files in one run
MaxCats == 1
\* KeyboardInterrupts delivered to the main thread in one run
MaxKI == 2
\* process handles that can be referenced or running at the same time
MaxProc == 2
\* saturation value of the history counters
HistCap == 2
\* swings of one move_bell call (BELL_SWING_COUNT_MAX is 5 in config.py)
MaxSwings == 2
\* rat files found by sounds.main when there are any
NumRats == 1
\* rats_loop called as a function: most files and most channels passed in
MaxFiles == 3
MaxChans == 3
\* calls made on one NeoPixel wrapper
MaxOps == 3
\* floats are modelled as fixed-point numbers: Scale units make 1.0, and every
\* division and multiplication rounds to the nearest unit, ties to even, as
\* IEEE 754 arithmetic rounds to the nearest double
Scale == 400

\* ------------------------------------------------------------- vocabulary
SoundLoops == {"ambient", "chains", "mainl", "rats"}
Threads == {"main", "sounds", "lighting", "bell", "setter"} \cup SoundLoops
Cats == SoundLoops \cup {"screams"}
Progs == {"orchestrator", "sounds", "lighting", "bell", "video"}
None == 0
Handles == 1..MaxProc

\* pcs in which a thread has left its function
Off == "off"
Done == "done"
Raised == "raised"
Exit1 == "exit1"
Finished == {Done, Raised, Exit1}

VARIABLES
  cfg,         \* inputs of the run: entry point, CLI flags, files found, display
  stop,        \* the flag of the shared threading.Event
  pc,          \* position of every thread
  idx,         \* ambient_loop: index of the track being played
  movesLeft,   \* move_bell: swings still to do
  rat_files,   \* rats_loop: number of rat files passed in (len(rat_files))
  channels,    \* rats_loop: number of channels passed in (len(channels))
  horde,       \* rats_loop: what the current iteration has done so far
  bell,        \* bell.py: inputs of move_bell and what the iteration has done
  pixels,      \* neopixel.py: the NeoPixel wrapper object and its backend
  bmain,       \* bell.main: how it was called and what it has done
  timing,      \* interval loops: configured bounds and last timeout passed to wait
  amb,         \* ambient_loop: indices played, outcome of the check after the play wait
  chanUse,     \* threads that addressed the ambient channel and the rat channels by index
  led,         \* flicker_breathe: the calls it has made on the strip
  process,     \* run_video_loop: handle passed to handle_video_process
  last_proc,   \* run_video_loop: last handle that was running
  new_process, \* handle_video_process: handle returned by Popen
  alive,       \* handles of subprocesses that are running
  phase,       \* caller of video_loop.main: "run", "shutdown", "alone" or "none"
  ki,          \* KeyboardInterrupts delivered so far
  joinPos,     \* _join_threads: index of the thread being joined
  threads,     \* main: the list returned by start_threads
  hist         \* history: what happened, recorded for the properties

vars == <<cfg, stop, pc, idx, movesLeft, rat_files, channels, horde, bell,
          pixels, bmain, timing, amb, chanUse, led, process, last_proc, new_process,
          alive, phase, ki, joinPos, threads, hist>>

ratsVars == <<rat_files, channels, horde>>
loopVars == <<idx, movesLeft, ratsVars, bell, pixels, bmain, timing, amb, chanUse, led>>
videoVars == <<process, last_proc, new_process, alive, phase>>
mainVars == <<ki, joinPos, threads>>

\* ---------------------------------------------------------------- helpers
Min(a, b) == IF a < b THEN a ELSE b
Bump(n) == Min(n + 1, HistCap)

Goto(t, l) == pc' = [pc EXCEPT ![t] = l]
At(t, l) == pc[t] = l

\* history record:
\*   waitsAfter[t]   waits on the event by t that returned with the event set
\*   startsAfter[t]  plays / hordes / draws / frames / polls t began with the event set
\*   errs[t]         playback calls of t that raised
\*   popens          Popen calls made with the event set
\*   kiRun           a KeyboardInterrupt arrived while main was in its run phase
\*   spawns[t]       threads sounds.main has started for sound loop t
\*   started         start_threads has returned
\*   shut            handle_shutdown has returned
\*   calls           calls of handle_shutdown begun so far
\*   ki2             a KeyboardInterrupt arrived during the second call
\*   kiOps           what the KeyboardInterrupt handler of sounds.main has done,
\*                   in order: "set", "ambient", "rats"
\*   kiRats          the rat channels that handler has called fadeout on
\*   tried           the threads _join_threads has called join() on
\*   joinErrs        a join() call raised AttributeError or RuntimeError
\*   poll            what the last poll of handle_video_process found
\*   none            why handle_video_process last returned None in the current
\*                   run_video_loop call: "launch" (Popen raised OSError), "crash"
\*                   (the new process was dead after the grace sleep),
\*                   "interrupt" (KeyboardInterrupt), or "no"
\*   exc             an exception other than OSError and KeyboardInterrupt was
\*                   raised in the current call of handle_video_process
\*   hchecks         evaluations of is_headless_environment() in the current
\*                   call of run_video_loop
\*   cleanup         cleanup_process in the current call of video_loop.main:
\*                   what its test found ("no" before it ran), how many
\*                   terminate and kill signals it sent, whether its wait
\*                   timed out
NoCleanup == [found |-> "no", terms |-> 0, kills |-> 0, timeout |-> FALSE]

ZeroHist ==
  [waitsAfter |-> [t \in Threads |-> 0],
   startsAfter |-> [t \in Threads |-> 0],
   errs |-> [t \in Threads |-> 0],
   popens |-> 0,
   kiRun |-> FALSE,
   kiOps |-> <<>>,
   kiRats |-> {},
   spawns |-> [t \in SoundLoops |-> 0],
   started |-> FALSE,
   shut |-> FALSE,
   calls |-> 0,
   ki2 |-> FALSE,
   tried |-> {},
   joinErrs |-> FALSE,
   poll |-> "none",
   none |-> "no",
   exc |-> FALSE,
   hchecks |-> 0,
   cleanup |-> NoCleanup]

\* one step of thread t, as the history sees it:
\*   st  it begins the work of a new top-level iteration
\*   er  its playback call raises
\*   wt  a wait on the event returns
Hist(t, st, er, wt) ==
  hist' = [hist EXCEPT
             !.startsAfter[t] = IF st /\ stop THEN Bump(@) ELSE @,
             !.errs[t] = IF er THEN Bump(@) ELSE @,
             !.waitsAfter[t] = IF wt /\ stop THEN Bump(@) ELSE @]
HWait(t) == Hist(t, FALSE, FALSE, TRUE)
HStart(t) == Hist(t, TRUE, FALSE, FALSE)
HRaise(t) == Hist(t, TRUE, TRUE, FALSE)

\* threading.Event.is_set()
is_set == stop

\* ------------------------------------------------------------ sounds.py
\* number of ambient tracks found (len(ambient_files)) when there are any
NumAmbient == 2

\* longest record of ambient plays kept
MaxPlays == 3

\* the records of what a loop did to its channels and to the strip (amb,
\* chanUse, led) are kept when the module of the loop is the entry point; under
\* skaven/main.py the loops run the same steps and the records stay as they
\* were
Observed == cfg.prog # "orchestrator"

\* the new value of a record that is kept only when observed
Kept(new, old) == IF Observed THEN new ELSE old

\* the channels a loop addresses by index: "ambient" is
\* pygame.mixer.Channel(AMBIENT_CHANNEL), owned by ambient_loop; "rats" are the
\* channels RATS_CHANNEL_START..RATS_CHANNEL_END - 1, owned by rats_loop
NoUse == [ambient |-> {}, rats |-> {}]

\* a loop thread runs from its start to its return or exception
Running(t) == pc[t] \notin Finished \cup {Off}

\* thread t calls play or fadeout on channel ch by its index: recorded when
\* the loop that owns the channel is running
Used(ch, t) ==
  Kept([chanUse EXCEPT ![ch] = IF Running(ch) THEN @ \cup {t} ELSE @], chanUse)

\* the record of ambient_loop:
\*   played  the indices of the files given to chan.play, the first MaxPlays
\*   unset1  in this iteration the check after the play wait found the event unset
NoAmbient == [played |-> <<>>, unset1 |-> FALSE]

\* ambient_loop: while not event.is_set()
ambient_top ==
  /\ At("ambient", "a_top")
  /\ Goto("ambient", IF is_set THEN Done ELSE "a_play")
  /\ amb' = Kept([amb EXCEPT !.unset1 = FALSE], amb)
  /\ UNCHANGED <<cfg, stop, idx, movesLeft, ratsVars, bell, pixels, bmain, timing, chanUse, led, videoVars, mainVars, hist>>

\* ambient_loop: Sound(ambient_files[idx]); set_volume; chan.play(snd, fade_ms)
ambient_play ==
  /\ At("ambient", "a_play")
  /\ \/ /\ Goto("ambient", "a_wait1") /\ HStart("ambient")
        /\ amb' = Kept([amb EXCEPT !.played = IF Len(@) < MaxPlays
                                                 THEN Append(@, idx) ELSE @], amb)
        /\ chanUse' = Used("ambient", "ambient")
     \/ /\ Goto("ambient", Raised) /\ HRaise("ambient")
        /\ UNCHANGED <<amb, chanUse>>
  /\ UNCHANGED <<cfg, stop, idx, movesLeft, ratsVars, bell, pixels, bmain,
                 timing, led, videoVars, mainVars>>

\* ambient_loop: event.wait(timeout=sleep_duration) returns
ambient_wait1 ==
  /\ At("ambient", "a_wait1")
  /\ Goto("ambient", "a_chk1")
  /\ HWait("ambient")
  /\ UNCHANGED <<cfg, stop, loopVars, videoVars, mainVars>>

\* mutant of ambient_chk1: the check after the play wait is missing
ambient_chk1_nobreak ==
  /\ At("ambient", "a_chk1")
  /\ Goto("ambient", "a_fade")
  /\ amb' = Kept([amb EXCEPT !.unset1 = ~is_set], amb)
  /\ UNCHANGED <<cfg, stop, idx, movesLeft, ratsVars, bell, pixels, bmain, timing, chanUse, led, videoVars, mainVars, hist>>

\* ambient_loop: if event.is_set(): break
ambient_chk1 ==
  /\ At("ambient", "a_chk1")
  /\ Goto("ambient", IF is_set THEN Done ELSE "a_fade")
  /\ amb' = Kept([amb EXCEPT !.unset1 = ~is_set], amb)
  /\ UNCHANGED <<cfg, stop, idx, movesLeft, ratsVars, bell, pixels, bmain, timing, chanUse, led, videoVars, mainVars, hist>>

\* ambient_loop: chan.fadeout(fade_ms)
ambient_fade ==
  /\ At("ambient", "a_fade")
  /\ Goto("ambient", "a_wait2")
  /\ chanUse' = Used("ambient", "ambient")
  /\ UNCHANGED <<cfg, stop, idx, movesLeft, ratsVars, bell, pixels, bmain, timing, amb, led, videoVars, mainVars, hist>>

\* ambient_loop: event.wait(timeout=fade_ms / 1000.0) returns
ambient_wait2 ==
  /\ At("ambient", "a_wait2")
  /\ Goto("ambient", "a_chk2")
  /\ HWait("ambient")
  /\ UNCHANGED <<cfg, stop, loopVars, videoVars, mainVars>>

\* mutant of ambient_chk2: the index advances whatever the event
ambient_chk2_always ==
  /\ At("ambient", "a_chk2")
  /\ Goto("ambient", IF is_set THEN Done ELSE "a_top")
  /\ idx' = (idx + 1) % NumAmbient
  /\ UNCHANGED <<cfg, stop, movesLeft, ratsVars, bell, pixels, bmain, timing, amb, chanUse, led, videoVars, mainVars, hist>>
\* ambient_loop: if event.is_set(): break; idx = (idx + 1) % len(ambient_files)
ambient_chk2 ==
  /\ At("ambient", "a_chk2")
  /\ IF is_set
       THEN Goto("ambient", Done) /\ UNCHANGED idx
       ELSE Goto("ambient", "a_top") /\ idx' = (idx + 1) % NumAmbient
  /\ UNCHANGED <<cfg, stop, movesLeft, ratsVars, bell, pixels, bmain, timing, amb, chanUse, led, videoVars, mainVars, hist>>

ambient_loop ==
  \/ ambient_top \/ ambient_play \/ ambient_wait1 \/ ambient_chk1
  \/ ambient_fade \/ ambient_wait2 \/ ambient_chk2

\* largest configured interval bound, in whole units of time
MaxWait == 1

\* the loops that wait a random interval between two actions
IntervalLoops == {"chains", "mainl", "bell"}

\* the shipped configuration has positive bounds for every loop
\* (CHAINS_SLEEP_MIN = 15, MAIN_SLEEP_MIN = 20, BELL_LOOP_WAIT_MIN_S = 10.0);
\* waited: the loop has called event.wait; timeout: the argument of its last call
DefaultTiming ==
  [t \in IntervalLoops |->
     [lo |-> MaxWait, hi |-> MaxWait, waited |-> FALSE, timeout |-> 0]]

\* the configurations of the interval bounds: 0 <= lo <= hi
Timings ==
  [IntervalLoops -> {r \in [lo : 0..MaxWait, hi : 0..MaxWait,
                             waited : {FALSE}, timeout : {0}] : r.lo <= r.hi}]

\* random.uniform(a, b): a + (b - a) * random(), some value of [a, b]
Uniform(a, b) == a..b

\* sleep_time = random.uniform(MIN, MAX); event.wait(timeout=sleep_time):
\* the value drawn is passed to wait as it is
Waits(t) ==
  \E sleep_time \in Uniform(timing[t].lo, timing[t].hi) :
    timing' = [timing EXCEPT ![t].waited = TRUE, ![t].timeout = sleep_time]

\* chains_loop and main_loop have the same body: t is "chains" or "mainl"
\* while not event.is_set()
interval_top(t) ==
  /\ At(t, "c_top")
  /\ Goto(t, IF is_set THEN Done ELSE "c_wait")
  /\ UNCHANGED <<cfg, stop, loopVars, videoVars, mainVars, hist>>

\* event.wait(timeout=sleep_time) returns
interval_wait(t) ==
  /\ At(t, "c_wait")
  /\ Goto(t, "c_chk")
  /\ Waits(t)
  /\ HWait(t)
  /\ UNCHANGED <<cfg, stop, idx, movesLeft, ratsVars, bell, pixels, bmain,
                 amb, chanUse, led, videoVars, mainVars>>

\* if event.is_set(): break
interval_chk(t) ==
  /\ At(t, "c_chk")
  /\ Goto(t, IF is_set THEN Done ELSE "c_play")
  /\ UNCHANGED <<cfg, stop, loopVars, videoVars, mainVars, hist>>

\* random.choice; pygame.mixer.Sound(p); set_volume; play()
interval_play(t) ==
  /\ At(t, "c_play")
  /\ \/ Goto(t, "c_top") /\ HStart(t)
     \/ Goto(t, Raised) /\ HRaise(t)
  /\ UNCHANGED <<cfg, stop, loopVars, videoVars, mainVars>>

interval_loop(t) ==
  interval_top(t) \/ interval_wait(t) \/ interval_chk(t) \/ interval_play(t)

chains_loop == interval_loop("chains")
main_loop == interval_loop("mainl")

\* config.py: RATS_CHANNEL_START = 1, RATS_CHANNEL_END = 5 (exclusive)
RATS_CHANNELS == 4
\* config.py: SOUND_VOLUME_DEFAULT = 0.75
SOUND_VOLUME_DEFAULT == (75 * Scale) \div 100
\* values random.random() can return, in units: 0.0 <= x < 1.0
Weights == {0, Scale \div 10, (6 * Scale) \div 10}

\* one float division or scaled multiplication: the quotient rounded to the
\* nearest unit, ties to even
RoundDiv(a, b) ==
  LET q == a \div b
      r == a % b
  IN IF 2 * r > b \/ (2 * r = b /\ q % 2 = 1) THEN q + 1 ELSE q

RECURSIVE Sum(_)
Sum(w) == IF w = <<>> THEN 0 ELSE Head(w) + Sum(Tail(w))

\* mutant of Tot: the weights are normalised by the first weight alone
Tot_first(weights) == IF Head(weights) = 0 THEN Scale ELSE Head(weights)
\* rats_loop: tot = sum(weights) or 1.0
Tot(weights) == IF Sum(weights) = 0 THEN Scale ELSE Sum(weights)

\* rats_loop: vol = SOUND_VOLUME_DEFAULT * (weights[idx] / tot)
Volume(weights, i) ==
  RoundDiv(SOUND_VOLUME_DEFAULT * RoundDiv(weights[i] * Scale, Tot(weights)),
           Scale)

\* mutant of Samples: the picks are drawn with replacement
Samples_choices(P, n) == [1..n -> 1..P]
\* random.sample(rat_files, n): n files of the pool, no file twice
Samples(P, n) ==
  {q \in [1..n -> 1..P] : \A i, j \in 1..n : i # j => q[i] # q[j]}

\* the plays of one horde: picks[i] at its volume on channels[i - 1]
Plays(picks, weights) ==
  [i \in 1..Len(picks) |->
     [file |-> picks[i], chan |-> i, vol |-> Volume(weights, i)]]

\* the record of one iteration of rats_loop:
\*   faded    channels whose fadeout was requested
\*   waited   the fade wait has returned
\*   waitSet  the event was set when the fade wait returned
\*   n        the number drawn by random.randint(1, max_n)
\*   weights  the weights drawn
\*   plays    the play calls made, in order
\*   done     the horde played all its picks
\*   err      random.randint raised ValueError
NoHorde ==
  [faded |-> {}, waited |-> FALSE, waitSet |-> FALSE, n |-> 0,
   weights |-> <<>>, plays |-> <<>>, done |-> FALSE, err |-> FALSE]

\* rats_loop: if not rat_files: return
rats_entry ==
  /\ At("rats", "r_entry")
  /\ Goto("rats", IF rat_files = 0 THEN Done ELSE "r_top")
  /\ UNCHANGED <<cfg, stop, loopVars, videoVars, mainVars, hist>>

\* rats_loop: while not event.is_set()
rats_top ==
  /\ At("rats", "r_top")
  /\ Goto("rats", IF is_set THEN Done ELSE "r_fade")
  /\ horde' = NoHorde
  /\ UNCHANGED <<cfg, stop, idx, movesLeft, bell, rat_files, channels, pixels, bmain, timing, amb, chanUse, led, videoVars,
                 mainVars, hist>>

\* rats_loop: for chan in channels: chan.fadeout(RATS_FADEOUT_MS)
rats_fade ==
  /\ At("rats", "r_fade")
  /\ Goto("rats", "r_wait1")
  /\ horde' = [horde EXCEPT !.faded = 1..channels]
  /\ chanUse' = IF channels > 0 THEN Used("rats", "rats") ELSE chanUse
  /\ UNCHANGED <<cfg, stop, idx, movesLeft, bell, rat_files, channels, pixels,
                 bmain, timing, amb, led, videoVars, mainVars, hist>>

\* rats_loop: event.wait(timeout=RATS_FADEOUT_MS / 1000.0) returns
rats_wait1 ==
  /\ At("rats", "r_wait1")
  /\ Goto("rats", "r_chk1")
  /\ HWait("rats")
  /\ horde' = [horde EXCEPT !.waited = TRUE, !.waitSet = stop]
  /\ UNCHANGED <<cfg, stop, idx, movesLeft, bell, rat_files, channels, pixels, bmain, timing, amb, chanUse, led, videoVars,
                 mainVars>>

\* mutant of rats_chk1: the event is not looked at after the fade wait
rats_chk1_nobreak ==
  /\ At("rats", "r_chk1")
  /\ Goto("rats", "r_horde")
  /\ UNCHANGED <<cfg, stop, loopVars, videoVars, mainVars, hist>>
\* rats_loop: if event.is_set(): break
rats_chk1 ==
  /\ At("rats", "r_chk1")
  /\ Goto("rats", IF is_set THEN Done ELSE "r_horde")
  /\ UNCHANGED <<cfg, stop, loopVars, videoVars, mainVars, hist>>

\* rats_loop: max_n = min(len(channels), len(rat_files)); n = randint(1, max_n)
\* (ValueError when max_n is 0); picks = random.sample(rat_files, n); one
\* weight per pick; then Sound(p), set_volume(vol), channels[idx].play(snd) for
\* each pick in turn. Sound(p) may raise at any pick, after the plays before it.
rats_horde ==
  /\ At("rats", "r_horde")
  /\ LET max_n == Min(channels, rat_files) IN
     IF max_n = 0
       THEN /\ Goto("rats", Raised)
            /\ horde' = [horde EXCEPT !.err = TRUE]
            /\ UNCHANGED hist
       ELSE \E n \in 1..max_n : \E picks \in Samples(rat_files, n) :
            \E weights \in [1..n -> Weights] :
              \/ /\ Goto("rats", "r_wait2")
                 /\ HStart("rats")
                 /\ horde' = [horde EXCEPT !.n = n, !.weights = weights,
                                !.plays = Plays(picks, weights), !.done = TRUE]
              \/ \E k \in 1..n :
                   /\ Goto("rats", Raised)
                   /\ HRaise("rats")
                   /\ horde' = [horde EXCEPT
                                  !.n = n, !.weights = weights,
                                  !.plays = SubSeq(Plays(picks, weights), 1, k - 1)]
  /\ chanUse' = IF horde'.plays # <<>> THEN Used("rats", "rats") ELSE chanUse
  /\ UNCHANGED <<cfg, stop, idx, movesLeft, bell, rat_files, channels, pixels,
                 bmain, timing, amb, led, videoVars, mainVars>>

\* rats_loop: event.wait(timeout=sleep_time) returns
rats_wait2 ==
  /\ At("rats", "r_wait2")
  /\ Goto("rats", "r_chk2")
  /\ HWait("rats")
  /\ UNCHANGED <<cfg, stop, loopVars, videoVars, mainVars>>

\* rats_loop: if event.is_set(): break
rats_chk2 ==
  /\ At("rats", "r_chk2")
  /\ Goto("rats", IF is_set THEN Done ELSE "r_top")
  /\ UNCHANGED <<cfg, stop, loopVars, videoVars, mainVars, hist>>

rats_loop ==
  \/ rats_entry \/ rats_top \/ rats_fade \/ rats_wait1 \/ rats_chk1
  \/ rats_horde \/ rats_wait2 \/ rats_chk2

\* first pc of the loop of a sound category
FirstPc(t) ==
  CASE t = "ambient" -> "a_top"
    [] t = "rats" -> "r_entry"
    [] OTHER -> "c_top"

\* mutant of sounds_init: a loop thread is started for every category,
\* with or without files
sounds_init_all ==
  /\ At("sounds", "s_init")
  /\ pc' = [t \in Threads |->
              IF t = "sounds" THEN "s_first"
              ELSE IF t \in SoundLoops THEN FirstPc(t)
              ELSE pc[t]]
  /\ hist' = [hist EXCEPT !.spawns = [t \in SoundLoops |-> @[t] + 1]]
  /\ UNCHANGED <<cfg, stop, loopVars, videoVars, mainVars>>

\* mutant of sounds_init: sounds.main starts by clearing the event
sounds_init_clear ==
  /\ At("sounds", "s_init")
  /\ stop' = FALSE
  /\ pc' = [t \in Threads |->
              IF t = "sounds" THEN "s_first"
              ELSE IF t \in SoundLoops \cap cfg.cats THEN FirstPc(t)
              ELSE pc[t]]
  /\ UNCHANGED <<cfg, loopVars, videoVars, mainVars, hist>>
\* sounds.main: pygame.init(), mixer.init(), load_sound_categories, then one
\* daemon thread per category of ambient, chains, main, rats that has files
sounds_init ==
  /\ At("sounds", "s_init")
  /\ \/ /\ pc' = [t \in Threads |->
                    IF t = "sounds" THEN "s_first"
                    ELSE IF t \in SoundLoops \cap cfg.cats THEN FirstPc(t)
                    ELSE pc[t]]
        /\ hist' = [hist EXCEPT
                      !.spawns = [t \in SoundLoops |->
                                    IF t \in cfg.cats THEN @[t] + 1 ELSE @[t]]]
     \/ Goto("sounds", Raised) /\ UNCHANGED hist
  /\ UNCHANGED <<cfg, stop, loopVars, videoVars, mainVars>>

\* sounds.main: if scream_files: play one scream at once
sounds_first ==
  /\ At("sounds", "s_first")
  /\ \/ Goto("sounds", "s_wait") /\ UNCHANGED hist
     \/ /\ "screams" \in cfg.cats
        /\ Goto("sounds", Raised)
        /\ Hist("sounds", FALSE, TRUE, FALSE)
  /\ UNCHANGED <<cfg, stop, loopVars, videoVars, mainVars>>

\* sounds.main: while not event.wait(timeout=MAIN_SCREAM_INTERVAL_S)
sounds_wait ==
  /\ At("sounds", "s_wait")
  /\ Goto("sounds", IF is_set THEN Done ELSE "s_play")
  /\ HWait("sounds")
  /\ UNCHANGED <<cfg, stop, loopVars, videoVars, mainVars>>

\* mutant of sounds_play: an exception of the playback is handled like the
\* KeyboardInterrupt of sounds.main, by setting the event
sounds_play_sets ==
  /\ At("sounds", "s_play")
  /\ IF "screams" \in cfg.cats
       THEN \/ Goto("sounds", "s_wait") /\ HStart("sounds") /\ UNCHANGED stop
            \/ Goto("sounds", Raised) /\ HRaise("sounds") /\ stop' = TRUE
       ELSE Goto("sounds", "s_wait") /\ UNCHANGED <<hist, stop>>
  /\ UNCHANGED <<cfg, loopVars, videoVars, mainVars>>

\* mutant of sounds_play: the scream is played on the ambient channel
sounds_play_on_ambient ==
  /\ At("sounds", "s_play")
  /\ IF "screams" \in cfg.cats
       THEN \/ Goto("sounds", "s_wait") /\ HStart("sounds")
            \/ Goto("sounds", Raised) /\ HRaise("sounds")
       ELSE Goto("sounds", "s_wait") /\ UNCHANGED hist
  /\ chanUse' = Used("ambient", "sounds")
  /\ UNCHANGED <<cfg, stop, idx, movesLeft, ratsVars, bell, pixels, bmain,
                 timing, amb, led, videoVars, mainVars>>
\* sounds.main: if not scream_files: continue; else play a random scream
sounds_play ==
  /\ At("sounds", "s_play")
  /\ IF "screams" \in cfg.cats
       THEN \/ Goto("sounds", "s_wait") /\ HStart("sounds")
            \/ Goto("sounds", Raised) /\ HRaise("sounds")
       ELSE Goto("sounds", "s_wait") /\ UNCHANGED hist
  /\ UNCHANGED <<cfg, stop, loopVars, videoVars, mainVars>>

sounds_main == sounds_init \/ sounds_first \/ sounds_wait \/ sounds_play

\* the try block of sounds.main that holds the scream loop
InScreamTry == {"s_first", "s_wait", "s_play"}

\* len(rat_chans) in sounds.main: the rat channels are created only when
\* there are rat files
RatChans == IF "rats" \in cfg.cats THEN RATS_CHANNELS ELSE 0

\* KeyboardInterrupt in the thread that runs sounds.main, when sounds.main is
\* the entry point:
\*   in the scream try block: except KeyboardInterrupt
\*   in time.sleep(MAIN_SHUTDOWN_WAIT_S): except KeyboardInterrupt: pass
\*   anywhere else it leaves main (the outer clauses catch Exception only)
sounds_interrupt ==
  /\ cfg.prog = "sounds"
  /\ pc["sounds"] \notin Finished \cup {Off}
  /\ ki < MaxKI
  /\ ki' = ki + 1
  /\ Goto("sounds", CASE pc["sounds"] \in InScreamTry -> "s_ki_set"
                      [] pc["sounds"] = "s_ki_sleep" -> Done
                      [] OTHER -> Raised)
  /\ UNCHANGED <<cfg, stop, loopVars, videoVars, joinPos, threads, hist>>

\* mutant of sounds_ki_set: the handler goes to the fadeouts without setting
\* the event
sounds_ki_set_skipped ==
  /\ At("sounds", "s_ki_set")
  /\ Goto("sounds", "s_ki_amb")
  /\ UNCHANGED <<cfg, stop, loopVars, videoVars, mainVars, hist>>
\* sounds.main, except KeyboardInterrupt: event.set()
sounds_ki_set ==
  /\ At("sounds", "s_ki_set")
  /\ stop' = TRUE
  /\ hist' = [hist EXCEPT !.kiOps = Append(@, "set")]
  /\ Goto("sounds", "s_ki_amb")
  /\ UNCHANGED <<cfg, loopVars, videoVars, mainVars>>

\* sounds.main: pygame.mixer.Channel(AMBIENT_CHANNEL).fadeout(...)
sounds_ki_ambient ==
  /\ At("sounds", "s_ki_amb")
  /\ hist' = [hist EXCEPT !.kiOps = Append(@, "ambient")]
  /\ chanUse' = Used("ambient", "sounds")
  /\ Goto("sounds", IF RatChans > 0 THEN "s_ki_rats" ELSE "s_ki_sleep")
  /\ UNCHANGED <<cfg, stop, idx, movesLeft, ratsVars, bell, pixels, bmain, timing, amb, led, videoVars, mainVars>>

\* sounds.main: for c in rat_chans: c.fadeout(MAIN_RATS_FADEOUT_MS)
sounds_ki_rats ==
  /\ At("sounds", "s_ki_rats")
  /\ hist' = [hist EXCEPT !.kiOps = Append(@, "rats"), !.kiRats = 1..RatChans]
  /\ chanUse' = Used("rats", "sounds")
  /\ Goto("sounds", "s_ki_sleep")
  /\ UNCHANGED <<cfg, stop, idx, movesLeft, ratsVars, bell, pixels, bmain, timing, amb, led, videoVars, mainVars>>

\* sounds.main: time.sleep(MAIN_SHUTDOWN_WAIT_S) ends, main returns
sounds_ki_sleep ==
  /\ At("sounds", "s_ki_sleep")
  /\ Goto("sounds", Done)
  /\ UNCHANGED <<cfg, stop, loopVars, videoVars, mainVars, hist>>

\* sounds.main, its KeyboardInterrupt handler
sounds_main_interrupted ==
  \/ sounds_interrupt \/ sounds_ki_set \/ sounds_ki_ambient \/ sounds_ki_rats
  \/ sounds_ki_sleep
\* sounds.main, stop_after: set_event_soon sleeps 0.1 s and sets the event.
\* The same step stands for any other holder of the event (the Timer of
\* lighting.py, the caller of bell.main or video_loop.main) setting it.
set_event_soon ==
  /\ At("setter", "set_sleep")
  /\ stop' = TRUE
  /\ Goto("setter", Done)
  /\ UNCHANGED <<cfg, loopVars, videoVars, mainVars, hist>>

\* ---------------------------------------------------------- lighting.py
\* the record of flicker_breathe:
\*   first     what its first wait found: "none" before it, "set" or "unset"
\*   rendered  a frame has been written to the strip, in part or whole
\*   last      the last two calls made on the strip: "setitem" (pixels[i] =
\*             ...), "show", "fill" (pixels.fill((0, 0, 0)))
NoLed == [first |-> "none", rendered |-> FALSE, last |-> <<>>]

\* the last two calls on the strip after the calls ops
LastTwo(ops) ==
  LET all == led.last \o ops
  IN IF Len(all) <= 2 THEN all ELSE SubSeq(all, Len(all) - 1, Len(all))

\* the first wait of flicker_breathe records what it found
FirstWait ==
  Kept([led EXCEPT !.first = IF @ = "none"
                               THEN (IF is_set THEN "set" ELSE "unset")
                               ELSE @], led)

\* mutant of flicker_wait: the result of the wait is ignored (while True)
flicker_wait_nostop ==
  /\ At("lighting", "l_wait")
  /\ Goto("lighting", "l_frame")
  /\ HWait("lighting")
  /\ led' = FirstWait
  /\ UNCHANGED <<cfg, stop, idx, movesLeft, ratsVars, bell, pixels, bmain, timing, amb, chanUse, videoVars, mainVars>>

\* flicker_breathe: while not event.wait(timeout=LIGHTING_UPDATE_INTERVAL)
flicker_wait ==
  /\ At("lighting", "l_wait")
  /\ Goto("lighting", IF is_set THEN "l_final" ELSE "l_frame")
  /\ HWait("lighting")
  /\ led' = FirstWait
  /\ UNCHANGED <<cfg, stop, idx, movesLeft, ratsVars, bell, pixels, bmain, timing, amb, chanUse, videoVars, mainVars>>

\* flicker_breathe: compute the frame, write every pixel, pixels.show();
\* an exception in the body leaves the loop through the finally clause: before
\* the first pixel is written, or after some pixels are written and before
\* show
flicker_frame ==
  /\ At("lighting", "l_frame")
  /\ \/ /\ Goto("lighting", "l_wait") /\ HStart("lighting")
        /\ led' = Kept([led EXCEPT !.rendered = TRUE,
                                   !.last = LastTwo(<<"setitem", "show">>)], led)
     \/ /\ Goto("lighting", "l_except") /\ HRaise("lighting")
        /\ \/ UNCHANGED led
           \/ led' = Kept([led EXCEPT !.rendered = TRUE,
                                      !.last = LastTwo(<<"setitem">>)], led)
  /\ UNCHANGED <<cfg, stop, idx, movesLeft, ratsVars, bell, pixels, bmain, timing, amb, chanUse, videoVars, mainVars>>

\* mutant of flicker_final: the strip is blanked when the loop ends, not when
\* an exception leaves it
flicker_final_no_finally ==
  /\ \/ /\ At("lighting", "l_final") /\ Goto("lighting", Done)
        /\ led' = Kept([led EXCEPT !.last = LastTwo(<<"fill", "show">>)], led)
     \/ /\ At("lighting", "l_except") /\ Goto("lighting", Raised)
        /\ UNCHANGED led
  /\ UNCHANGED <<cfg, stop, idx, movesLeft, ratsVars, bell, pixels, bmain, timing, amb, chanUse, videoVars, mainVars, hist>>
\* flicker_breathe: finally: pixels.fill((0, 0, 0)); pixels.show(), then the
\* function returns or the exception of the frame goes on. fill and show of
\* the NeoPixel wrapper catch every Exception of the backend.
flicker_final ==
  /\ \/ At("lighting", "l_final") /\ Goto("lighting", Done)
     \/ At("lighting", "l_except") /\ Goto("lighting", Raised)
  /\ led' = Kept([led EXCEPT !.last = LastTwo(<<"fill", "show">>)], led)
  /\ UNCHANGED <<cfg, stop, idx, movesLeft, ratsVars, bell, pixels, bmain, timing, amb, chanUse, videoVars, mainVars, hist>>

flicker_breathe == flicker_wait \/ flicker_frame \/ flicker_final

\* ------------------------------------------------------------ neopixel.py
\* the NeoPixel wrapper:
\*   live        the wrapper object has been constructed
\*   handle      self._pixels is not None
\*   auto_write  self.auto_write
\*   ops         calls of show, fill and __setitem__ made on the wrapper
\*   last        the method called last
\*   errors      backend calls that raised (each is caught and logged)
\*   reached     calls that reached the backend
\*   late        calls that reached the backend after a backend call had raised
NoPixels ==
  [live |-> FALSE, handle |-> FALSE, auto_write |-> FALSE, ops |-> 0,
   last |-> "none",
   errors |-> 0, reached |-> 0, late |-> 0]

\* one call of a method of self._pixels, which returns (ok) or raises
Backend(px, ok) ==
  [px EXCEPT !.reached = @ + 1,
             !.late = IF px.errors > 0 THEN @ + 1 ELSE @,
             !.errors = IF ok THEN @ ELSE @ + 1]

\* mutant of Caught: the wrapper drops its handle when the backend has raised
Caught_invalidate(px, ok) == [px EXCEPT !.handle = ok /\ @]
\* NeoPixel.show / fill / __setitem__: except Exception as e: logger.error(...)
Caught(px, ok) == px

\* NeoPixel.show: if self._pixels is not None: try: self._pixels.show()
neopixel_show ==
  /\ pixels.live /\ pixels.ops < MaxOps
  /\ IF pixels.handle
       THEN \E ok \in BOOLEAN :
              pixels' = [Caught(Backend(pixels, ok), ok) EXCEPT
                           !.ops = @ + 1, !.last = "show"]
       ELSE pixels' = [pixels EXCEPT !.ops = @ + 1, !.last = "show"]
  /\ UNCHANGED <<cfg, stop, pc, idx, movesLeft, ratsVars, bell, bmain, timing, amb, chanUse, led, videoVars,
                 mainVars, hist>>

\* NeoPixel.fill and NeoPixel.__setitem__ with a handle: try: the backend
\* call; if self.auto_write: self._pixels.show(); one except clause for both
Written(px, ok1, ok2) ==
  LET first == Backend(px, ok1)
  IN IF ok1 /\ px.auto_write
       THEN Caught(Backend(first, ok2), ok2)
       ELSE Caught(first, ok1)

\* NeoPixel.fill: if self._pixels is not None: try: self._pixels.fill(color)
neopixel_fill ==
  /\ pixels.live /\ pixels.ops < MaxOps
  /\ IF pixels.handle
       THEN \E ok1, ok2 \in BOOLEAN :
              pixels' = [Written(pixels, ok1, ok2) EXCEPT
                           !.ops = @ + 1, !.last = "fill"]
       ELSE pixels' = [pixels EXCEPT !.ops = @ + 1, !.last = "fill"]
  /\ UNCHANGED <<cfg, stop, pc, idx, movesLeft, ratsVars, bell, bmain, timing, amb, chanUse, led, videoVars,
                 mainVars, hist>>

\* NeoPixel.__setitem__: if self._pixels is not None: try:
\* self._pixels[index] = color
neopixel_setitem ==
  /\ pixels.live /\ pixels.ops < MaxOps
  /\ IF pixels.handle
       THEN \E ok1, ok2 \in BOOLEAN :
              pixels' = [Written(pixels, ok1, ok2) EXCEPT
                           !.ops = @ + 1, !.last = "setitem"]
       ELSE pixels' = [pixels EXCEPT !.ops = @ + 1, !.last = "setitem"]
  /\ UNCHANGED <<cfg, stop, pc, idx, movesLeft, ratsVars, bell, bmain, timing, amb, chanUse, led, videoVars,
                 mainVars, hist>>

\* -------------------------------------------------------------- bell.py
\* the record of bell.main:
\*   live         bell.main is what runs the bell loop
\*   own          stop_event was None: main created the event itself
\*   servo        the global servo is set
\*   entered      random_trigger_loop was entered
\*   how          how random_trigger_loop ended: "return" or the exception
\*   cleanup      the cleanup calls attempted, in order
\*   raisedIn     the cleanup calls that raised
\*   mainSet      main has called set() on the event
\*   mixerFailed  the mixer could not be initialised
\*   servoFailed  the servo could not be constructed
NoBellMain ==
  [live |-> FALSE, own |-> FALSE, servo |-> FALSE, entered |-> FALSE,
   how |-> "none", cleanup |-> <<>>, raisedIn |-> {}, mainSet |-> FALSE,
   mixerFailed |-> FALSE, servoFailed |-> FALSE]

\* where random_trigger_loop returns to
LoopReturn == IF bmain.live THEN "bm_mid" ELSE Done

\* config.py: BELL_SWING_COUNT_MIN = 1
BELL_SWING_COUNT_MIN == 1

\* the record of the bell:
\*   min_swings  config.BELL_SWING_COUNT_MIN as move_bell reads it
\*   servo       a servo object is available (servo_obj or the global servo)
\*   ret         where move_bell returns to
\*   waited      the wait of this iteration of random_trigger_loop has returned,
\*   waitSet     and the event was set when it returned
\*   draws       calls of random.random() in this iteration
\*   toll        the draw was below BELL_TRIGGER_PROBABILITY
\*   calls       calls of start_sound, move_bell, stop_sound in this iteration
\*   entrySet    the event was set when move_bell was entered
\*   moves       the number of swings drawn by move_bell
\*   writes      swing positions written to the servo by this call of move_bell
\*   lateWrites  those written with the event set
\*   mids        calls of servo.mid() by this call of move_bell
\*   moveExc     a swing step raised
\*   midExc      servo.mid() raised
\*   returned    move_bell has returned
\*   stopSeen    what the test before stop_sound saw: "set", "unset", "none"
NoBell ==
  [min_swings |-> BELL_SWING_COUNT_MIN, servo |-> TRUE, ret |-> "b_stop",
   waited |-> FALSE, waitSet |-> FALSE, draws |-> 0, toll |-> FALSE,
   calls |-> <<>>, entrySet |-> FALSE, moves |-> 0, writes |-> 0,
   lateWrites |-> 0, mids |-> 0, moveExc |-> FALSE, midExc |-> FALSE,
   returned |-> FALSE, stopSeen |-> "none"]

\* the record at the start of an iteration or of a call: the inputs stay
FreshBell == [NoBell EXCEPT !.min_swings = bell.min_swings,
                            !.servo = bell.servo, !.ret = bell.ret]

\* random_trigger_loop: while True: if loop_event.is_set(): return
bell_top ==
  /\ At("bell", "b_top")
  /\ Goto("bell", IF is_set THEN LoopReturn ELSE "b_wait")
  /\ bell' = FreshBell
  /\ UNCHANGED <<cfg, stop, idx, movesLeft, ratsVars, pixels, bmain, timing, amb, chanUse, led, videoVars, mainVars, hist>>

\* random_trigger_loop: if loop_event.wait(timeout=wait_time): return
bell_wait ==
  /\ At("bell", "b_wait")
  /\ Goto("bell", IF is_set THEN LoopReturn ELSE "b_draw")
  /\ Waits("bell")
  /\ HWait("bell")
  /\ bell' = [bell EXCEPT !.waited = TRUE, !.waitSet = stop]
  /\ UNCHANGED <<cfg, stop, idx, movesLeft, ratsVars, pixels, bmain, amb, chanUse, led, videoVars, mainVars>>

\* mutant of bell_draw: the bell tolls whatever the draw
bell_draw_always ==
  /\ At("bell", "b_draw")
  /\ \E toll \in BOOLEAN :
       /\ Goto("bell", "b_sound")
       /\ bell' = [bell EXCEPT !.draws = @ + 1, !.toll = toll]
  /\ HStart("bell")
  /\ UNCHANGED <<cfg, stop, idx, movesLeft, ratsVars, pixels, bmain, timing, amb, chanUse, led, videoVars, mainVars>>
\* random_trigger_loop: if random.random() < BELL_TRIGGER_PROBABILITY
bell_draw ==
  /\ At("bell", "b_draw")
  /\ \E toll \in BOOLEAN :
       /\ Goto("bell", IF toll THEN "b_sound" ELSE "b_top")
       /\ bell' = [bell EXCEPT !.draws = @ + 1, !.toll = toll]
  /\ HStart("bell")
  /\ UNCHANGED <<cfg, stop, idx, movesLeft, ratsVars, pixels, bmain, timing, amb, chanUse, led, videoVars, mainVars>>

\* random_trigger_loop: start_sound() (pygame.error is caught inside), then
\* the call of move_bell(stop_event=loop_event)
bell_sound ==
  /\ At("bell", "b_sound")
  /\ Goto("bell", "mb_entry")
  /\ bell' = [bell EXCEPT !.calls = Append(@, "start_sound")]
  /\ UNCHANGED <<cfg, stop, idx, movesLeft, ratsVars, pixels, bmain, timing, amb, chanUse, led, videoVars, mainVars, hist>>

\* move_bell: if _servo is None: return; moves = random.randint(
\* BELL_SWING_COUNT_MIN, BELL_SWING_COUNT_MAX)
move_bell_entry ==
  /\ At("bell", "mb_entry")
  /\ IF bell.servo
       THEN \E moves \in bell.min_swings..MaxSwings :
              /\ movesLeft' = moves
              /\ Goto("bell", "mb_chk")
              /\ bell' = [bell EXCEPT !.calls = Append(@, "move_bell"),
                                      !.entrySet = stop, !.moves = moves]
       ELSE /\ movesLeft' = 0
            /\ Goto("bell", bell.ret)
            /\ bell' = [bell EXCEPT !.calls = Append(@, "move_bell"),
                                    !.entrySet = stop, !.returned = TRUE]
  /\ UNCHANGED <<cfg, stop, idx, ratsVars, pixels, bmain, timing, amb, chanUse, led, videoVars, mainVars, hist>>

\* move_bell: for _ in range(moves): if move_event.is_set(): break
move_bell_chk ==
  /\ At("bell", "mb_chk")
  /\ Goto("bell", IF movesLeft = 0 \/ is_set THEN "mb_mid" ELSE "mb_pos")
  /\ UNCHANGED <<cfg, stop, loopVars, videoVars, mainVars, hist>>

\* mutant of move_bell_pos: the exception of a swing step leaves move_bell
move_bell_pos_escape ==
  /\ At("bell", "mb_pos")
  /\ \/ /\ Goto("bell", "mb_wait")
        /\ bell' = [bell EXCEPT !.writes = @ + 1,
                                !.lateWrites = IF stop THEN @ + 1 ELSE @]
     \/ /\ Goto("bell", bell.ret)
        /\ bell' = [bell EXCEPT !.moveExc = TRUE, !.returned = TRUE]
  /\ UNCHANGED <<cfg, stop, idx, movesLeft, ratsVars, pixels, bmain, timing, amb, chanUse, led, videoVars, mainVars, hist>>
\* move_bell: _servo.value = position; an exception of the swing step is kept
\* in error_in_move and ends the swings
move_bell_pos ==
  /\ At("bell", "mb_pos")
  /\ \/ /\ Goto("bell", "mb_wait")
        /\ bell' = [bell EXCEPT !.writes = @ + 1,
                                !.lateWrites = IF stop THEN @ + 1 ELSE @]
     \/ /\ Goto("bell", "mb_mid")
        /\ bell' = [bell EXCEPT !.moveExc = TRUE]
  /\ UNCHANGED <<cfg, stop, idx, movesLeft, ratsVars, pixels, bmain, timing, amb, chanUse, led, videoVars, mainVars, hist>>

\* mutant of move_bell_wait: the pause between swings is a plain sleep
move_bell_wait_nobreak ==
  /\ At("bell", "mb_wait")
  /\ Goto("bell", "mb_chk") /\ movesLeft' = movesLeft - 1
  /\ HWait("bell")
  /\ UNCHANGED <<cfg, stop, idx, ratsVars, bell, pixels, bmain, timing, amb, chanUse, led, videoVars, mainVars>>
\* move_bell: if move_event.wait(sleep_duration): break
move_bell_wait ==
  /\ At("bell", "mb_wait")
  /\ IF is_set
       THEN Goto("bell", "mb_mid") /\ UNCHANGED movesLeft
       ELSE Goto("bell", "mb_chk") /\ movesLeft' = movesLeft - 1
  /\ HWait("bell")
  /\ UNCHANGED <<cfg, stop, idx, ratsVars, bell, pixels, bmain, timing, amb, chanUse, led, videoVars, mainVars>>

\* move_bell: try: _servo.mid() except Exception: cleanup_error = servo_e; the
\* errors are logged and move_bell returns
move_bell_mid ==
  /\ At("bell", "mb_mid")
  /\ Goto("bell", bell.ret)
  /\ movesLeft' = 0
  /\ \E ok \in BOOLEAN :
       bell' = [bell EXCEPT !.mids = @ + 1, !.midExc = ~ok, !.returned = TRUE]
  /\ UNCHANGED <<cfg, stop, idx, ratsVars, pixels, bmain, timing, amb, chanUse, led, videoVars, mainVars, hist>>

\* random_trigger_loop: if not loop_event.is_set(): stop_sound()
bell_stop ==
  /\ At("bell", "b_stop")
  /\ Goto("bell", "b_top")
  /\ bell' = [bell EXCEPT
                !.calls = IF is_set THEN @ ELSE Append(@, "stop_sound"),
                !.stopSeen = IF is_set THEN "set" ELSE "unset"]
  /\ UNCHANGED <<cfg, stop, idx, movesLeft, ratsVars, pixels, bmain, timing, amb, chanUse, led, videoVars, mainVars, hist>>

move_bell ==
  \/ move_bell_entry \/ move_bell_chk \/ move_bell_pos \/ move_bell_wait
  \/ move_bell_mid

random_trigger_loop ==
  bell_top \/ bell_wait \/ bell_draw \/ bell_sound \/ move_bell \/ bell_stop

\* pcs of the bell thread inside random_trigger_loop
InTriggerLoop ==
  {"b_top", "b_wait", "b_draw", "b_sound", "mb_entry", "mb_chk", "mb_pos",
   "mb_wait", "mb_mid", "b_stop"}

\* bell.main: ensure_pygame_mixer_initialized(); on pygame.error: log, set the
\* event if main created it, sys.exit(1). SystemExit is caught by none of the
\* except clauses of main. Any other exception goes to `except Exception`.
bell_main_mixer ==
  /\ At("bell", "bm_mixer")
  /\ \/ Goto("bell", "bm_servo") /\ UNCHANGED <<stop, bmain>>
     \/ /\ Goto("bell", Exit1)
        /\ stop' = (stop \/ bmain.own)
        /\ bmain' = [bmain EXCEPT !.mixerFailed = TRUE, !.mainSet = bmain.own]
     \/ /\ Goto("bell", "bm_mid")
        /\ bmain' = [bmain EXCEPT !.how = "Exception"]
        /\ UNCHANGED stop
  /\ UNCHANGED <<cfg, idx, movesLeft, ratsVars, bell, pixels, timing, amb, chanUse, led, videoVars,
                 mainVars, hist>>

\* mutant of bell_main_servo: the failure sets the event, whoever owns it
bell_main_servo_sets ==
  /\ At("bell", "bm_servo")
  /\ \/ /\ Goto("bell", "b_top")
        /\ bmain' = [bmain EXCEPT !.servo = TRUE, !.entered = TRUE]
        /\ UNCHANGED stop
     \/ /\ ~bmain.servo
        /\ Goto("bell", Exit1)
        /\ stop' = TRUE
        /\ bmain' = [bmain EXCEPT !.servoFailed = TRUE, !.mainSet = TRUE]
  /\ UNCHANGED <<cfg, idx, movesLeft, ratsVars, bell, pixels, timing, amb, chanUse, led, videoVars,
                 mainVars, hist>>
\* bell.main: if servo is None: try: servo = Servo(...) except Exception: log,
\* set the event if main created it, sys.exit(1); then random_trigger_loop
bell_main_servo ==
  /\ At("bell", "bm_servo")
  /\ \/ /\ Goto("bell", "b_top")
        /\ bmain' = [bmain EXCEPT !.servo = TRUE, !.entered = TRUE]
        /\ UNCHANGED stop
     \/ /\ ~bmain.servo
        /\ Goto("bell", Exit1)
        /\ stop' = (stop \/ bmain.own)
        /\ bmain' = [bmain EXCEPT !.servoFailed = TRUE, !.mainSet = bmain.own]
  /\ UNCHANGED <<cfg, idx, movesLeft, ratsVars, bell, pixels, timing, amb, chanUse, led, videoVars,
                 mainVars, hist>>

\* bell.main: except KeyboardInterrupt / except pygame.error / except
\* Exception around random_trigger_loop: each logs and falls to the cleanup
bell_main_except ==
  /\ bmain.live
  /\ pc["bell"] \in InTriggerLoop
  /\ \E e \in {"KeyboardInterrupt", "pygame.error", "Exception"} :
       bmain' = [bmain EXCEPT !.how = e]
  /\ Goto("bell", "bm_mid")
  /\ UNCHANGED <<cfg, stop, idx, movesLeft, ratsVars, bell, pixels, timing, amb, chanUse, led, videoVars,
                 mainVars, hist>>

\* one cleanup call that is inside its own try / except Exception
Attempt(call, ok) ==
  [bmain EXCEPT !.cleanup = Append(@, call),
                !.raisedIn = IF ok THEN @ ELSE @ \cup {call},
                !.how = IF @ = "none" THEN "return" ELSE @]

\* bell.main cleanup: if servo: try: servo.mid() except Exception
bell_main_mid ==
  /\ At("bell", "bm_mid")
  /\ IF bmain.servo
       THEN /\ \E ok \in BOOLEAN : bmain' = Attempt("mid", ok)
            /\ Goto("bell", "bm_close")
       ELSE /\ UNCHANGED bmain
            /\ Goto("bell", "bm_stop_sound")
  /\ UNCHANGED <<cfg, stop, idx, movesLeft, ratsVars, bell, pixels, timing, amb, chanUse, led, videoVars,
                 mainVars, hist>>

\* bell.main cleanup: try: servo.close() except Exception
bell_main_close ==
  /\ At("bell", "bm_close")
  /\ \E ok \in BOOLEAN : bmain' = Attempt("close", ok)
  /\ Goto("bell", "bm_stop_sound")
  /\ UNCHANGED <<cfg, stop, idx, movesLeft, ratsVars, bell, pixels, timing, amb, chanUse, led, videoVars,
                 mainVars, hist>>

\* mutant of bell_main_stop_sound: the call is inside a try / except Exception
bell_main_stop_sound_guarded ==
  /\ At("bell", "bm_stop_sound")
  /\ \E ok \in BOOLEAN : bmain' = Attempt("stop_sound", ok)
  /\ Goto("bell", "bm_quit")
  /\ UNCHANGED <<cfg, stop, idx, movesLeft, ratsVars, bell, pixels, timing, amb, chanUse, led, videoVars,
                 mainVars, hist>>
\* bell.main cleanup: stop_sound(), called outside any try. stop_sound itself
\* catches pygame.error only; any other exception leaves stop_sound and main.
bell_main_stop_sound ==
  /\ At("bell", "bm_stop_sound")
  /\ \E ok \in BOOLEAN :
       /\ bmain' = Attempt("stop_sound", ok)
       /\ Goto("bell", IF ok THEN "bm_quit" ELSE Raised)
  /\ UNCHANGED <<cfg, stop, idx, movesLeft, ratsVars, bell, pixels, timing, amb, chanUse, led, videoVars,
                 mainVars, hist>>

\* bell.main cleanup: try: pygame.mixer.quit() except Exception
bell_main_quit ==
  /\ At("bell", "bm_quit")
  /\ \E ok \in BOOLEAN : bmain' = Attempt("quit", ok)
  /\ Goto("bell", "bm_set")
  /\ UNCHANGED <<cfg, stop, idx, movesLeft, ratsVars, bell, pixels, timing, amb, chanUse, led, videoVars,
                 mainVars, hist>>

\* bell.main cleanup: if created_event is not None: created_event.set()
bell_main_set ==
  /\ At("bell", "bm_set")
  /\ stop' = (stop \/ bmain.own)
  /\ bmain' = [bmain EXCEPT !.mainSet = bmain.own]
  /\ Goto("bell", Done)
  /\ UNCHANGED <<cfg, idx, movesLeft, ratsVars, bell, pixels, timing, amb, chanUse, led, videoVars,
                 mainVars, hist>>

bell_main ==
  \/ bell_main_mixer \/ bell_main_servo \/ bell_main_except
  \/ bell_main_mid \/ bell_main_close \/ bell_main_stop_sound
  \/ bell_main_quit \/ bell_main_set

\* ---------------------------------------------------------- video_loop.py
\* where control goes when video_loop.main returns to its caller
AfterVideo ==
  CASE phase = "shutdown" -> "hs_set"
    [] OTHER -> Done

\* where a KeyboardInterrupt that escapes video_loop.main is caught:
\* handle_video_playback returns, handle_shutdown passes, a bare caller has none
VideoInterrupted ==
  CASE phase = "run" -> Done
    [] phase = "shutdown" -> "hs_set"
    [] OTHER -> Raised

\* a handle Popen can return: one that is neither running nor referenced
FreeHandles == Handles \ (alive \cup {process, last_proc, new_process})

\* is_headless_environment: no DISPLAY and no WAYLAND_DISPLAY, or
\* config.VIDEO_DISABLED
is_headless_environment == cfg.headless

\* video_loop.main: check_mpv_installed() returns or calls sys.exit(1)
check_mpv_installed ==
  /\ At("main", "v_mpv")
  /\ \E installed \in BOOLEAN : Goto("main", IF installed THEN "v_head" ELSE Exit1)
  /\ UNCHANGED <<cfg, stop, loopVars, videoVars, mainVars, hist>>

\* mutant of run_video_loop_head: the poll loop is entered without looking
\* at the environment
run_video_loop_head_nocheck ==
  /\ At("main", "v_head")
  /\ process' = None
  /\ last_proc' = None
  /\ Goto("main", "v_wait")
  /\ hist' = [hist EXCEPT !.none = "no", !.poll = "none", !.exc = FALSE,
                          !.hchecks = 0, !.cleanup = NoCleanup]
  /\ UNCHANGED <<cfg, stop, loopVars, new_process, alive, phase, mainVars>>

\* run_video_loop: if is_headless_environment(): return None; process = None
run_video_loop_head ==
  /\ At("main", "v_head")
  /\ process' = None
  /\ last_proc' = None
  /\ Goto("main", IF is_headless_environment THEN "v_cleanup" ELSE "v_wait")
  /\ hist' = [hist EXCEPT !.none = "no", !.poll = "none", !.exc = FALSE,
                          !.hchecks = 1, !.cleanup = NoCleanup]
  /\ UNCHANGED <<cfg, stop, loopVars, new_process, alive, phase, mainVars>>

\* mutant of run_video_loop_wait: the result of the wait is ignored
run_video_loop_wait_nostop ==
  /\ At("main", "v_wait")
  /\ Goto("main", "v_poll")
  /\ HWait("main")
  /\ UNCHANGED <<cfg, stop, loopVars, videoVars, mainVars>>

\* run_video_loop: while not event.wait(timeout=LOOP_WAIT_TIMEOUT)
run_video_loop_wait ==
  /\ At("main", "v_wait")
  /\ Goto("main", IF is_set THEN "v_cleanup" ELSE "v_poll")
  /\ HWait("main")
  /\ UNCHANGED <<cfg, stop, loopVars, videoVars, mainVars>>

\* mutant of NeedsLaunch: only a missing handle is launched (no restart)
NeedsLaunch_noexit(p) == p = None

\* mutant of NeedsLaunch: every poll launches
NeedsLaunch_always(p) == TRUE

\* handle_video_process: if process is None or process.poll() is not None
NeedsLaunch(p) == p = None \/ p \notin alive

\* handle_video_process: the poll; a running process is returned as it is,
\* an exception of poll() goes to handle_unexpected_error
handle_video_process_poll ==
  /\ At("main", "v_poll")
  /\ \E raises \in {r \in BOOLEAN : r => process # None} :
       LET found == IF raises THEN "raised"
                    ELSE IF process = None THEN "first"
                    ELSE IF NeedsLaunch(process) THEN "exited" ELSE "running"
       IN /\ Goto("main", CASE found = "raised" -> "v_unexp"
                             [] found = "running" -> "v_loop"
                             [] OTHER -> "v_popen")
          /\ hist' = [hist EXCEPT
                        !.startsAfter["main"] = IF stop THEN Bump(@) ELSE @,
                        !.poll = found,
                        !.exc = raises]
  /\ UNCHANGED <<cfg, stop, loopVars, videoVars, mainVars>>

\* handle_video_process: new_process = subprocess.Popen(cmd); an OSError
\* returns None, any other exception goes to handle_unexpected_error
handle_video_process_popen ==
  /\ At("main", "v_popen")
  /\ \/ /\ FreeHandles # {}
        /\ LET h == CHOOSE x \in FreeHandles : \A y \in FreeHandles : x <= y
           IN /\ new_process' = h
              /\ alive' = alive \cup {h}
        /\ Goto("main", "v_grace")
        /\ hist' = [hist EXCEPT !.popens = IF stop THEN Bump(@) ELSE @]
        /\ UNCHANGED process
     \/ /\ process' = None
        /\ Goto("main", "v_loop")
        /\ hist' = [hist EXCEPT !.popens = IF stop THEN Bump(@) ELSE @,
                                !.none = "launch"]
        /\ UNCHANGED <<new_process, alive>>
     \/ /\ Goto("main", "v_unexp")
        /\ hist' = [hist EXCEPT !.popens = IF stop THEN Bump(@) ELSE @,
                                !.exc = TRUE]
        /\ UNCHANGED <<process, new_process, alive>>
  /\ UNCHANGED <<cfg, stop, loopVars, last_proc, phase, mainVars>>

\* handle_video_process: time.sleep(0.1) ends
handle_video_process_grace ==
  /\ At("main", "v_grace")
  /\ Goto("main", "v_chk2")
  /\ UNCHANGED <<cfg, stop, loopVars, videoVars, mainVars, hist>>

\* mutant of handle_video_process_chk2: the check after the grace sleep is
\* skipped and the new handle is returned whatever its state
handle_video_process_chk2_keep ==
  /\ At("main", "v_chk2")
  /\ process' = new_process
  /\ new_process' = None
  /\ Goto("main", "v_loop")
  /\ UNCHANGED <<cfg, stop, loopVars, last_proc, alive, phase, mainVars, hist>>
\* handle_video_process: if new_process.poll() is not None: return None
\* else return new_process
handle_video_process_chk2 ==
  /\ At("main", "v_chk2")
  /\ process' = IF new_process \in alive THEN new_process ELSE None
  /\ new_process' = None
  /\ Goto("main", "v_loop")
  /\ hist' = [hist EXCEPT !.none = IF new_process \in alive THEN @ ELSE "crash"]
  /\ UNCHANGED <<cfg, stop, loopVars, last_proc, alive, phase, mainVars>>

\* handle_unexpected_error: if process: process.terminate()
handle_unexpected_error_term ==
  /\ At("main", "v_unexp")
  /\ Goto("main", "v_uwait")
  /\ UNCHANGED <<cfg, stop, loopVars, videoVars, mainVars, hist>>

\* handle_unexpected_error: process.wait() returns once the process has exited
handle_unexpected_error_wait ==
  /\ At("main", "v_uwait")
  /\ process \notin alive
  /\ Goto("main", "v_usleep")
  /\ UNCHANGED <<cfg, stop, loopVars, videoVars, mainVars, hist>>

\* handle_unexpected_error: time.sleep(PROCESS_WAIT_TIMEOUT) ends;
\* handle_video_process returns process
handle_unexpected_error_sleep ==
  /\ At("main", "v_usleep")
  /\ Goto("main", "v_loop")
  /\ UNCHANGED <<cfg, stop, loopVars, videoVars, mainVars, hist>>

\* mutant of run_video_loop_next: a None result does not break the loop
run_video_loop_next_retry ==
  /\ At("main", "v_loop")
  /\ Goto("main", "v_wait")
  /\ last_proc' = IF process = None THEN last_proc ELSE process
  /\ hist' = [hist EXCEPT !.poll = "none", !.exc = FALSE]
  /\ UNCHANGED <<cfg, stop, loopVars, process, new_process, alive, phase,
                 mainVars>>

\* mutant of run_video_loop_next: a None result also sets the stop event
run_video_loop_next_stop ==
  /\ At("main", "v_loop")
  /\ IF process = None
       THEN /\ Goto("main", "v_cleanup")
            /\ stop' = TRUE
            /\ UNCHANGED last_proc
       ELSE /\ Goto("main", "v_wait")
            /\ last_proc' = process
            /\ UNCHANGED stop
  /\ hist' = [hist EXCEPT !.poll = "none", !.exc = FALSE]
  /\ UNCHANGED <<cfg, loopVars, process, new_process, alive, phase, mainVars>>
\* run_video_loop: if process is None: break; last_proc = process
run_video_loop_next ==
  /\ At("main", "v_loop")
  /\ IF process = None
       THEN /\ Goto("main", "v_cleanup")
            /\ hist' = [hist EXCEPT !.poll = "none", !.exc = FALSE]
            /\ UNCHANGED last_proc
       ELSE /\ Goto("main", "v_wait")
            /\ last_proc' = process
            /\ hist' = [hist EXCEPT !.poll = "none", !.exc = FALSE]
  /\ UNCHANGED <<cfg, stop, loopVars, process, new_process, alive, phase,
                 mainVars>>

\* cleanup_process: what `if process and process.poll() is None` finds
CleanupFinds(p) ==
  IF p = None THEN "none" ELSE IF p \in alive THEN "running" ELSE "exited"

\* cleanup_process: if process and process.poll() is None: process.terminate()
cleanup_process ==
  /\ At("main", "v_cleanup")
  /\ LET found == CleanupFinds(last_proc)
     IN /\ Goto("main", IF found = "running" THEN "v_cwait" ELSE AfterVideo)
        /\ hist' = [hist EXCEPT
                      !.cleanup.found = found,
                      !.cleanup.terms = IF found = "running" THEN Bump(@) ELSE @]
  /\ UNCHANGED <<cfg, stop, loopVars, videoVars, mainVars>>

\* mutant of cleanup_process_wait: the process is killed without waiting for
\* it to exit
cleanup_process_wait_kill ==
  /\ At("main", "v_cwait")
  /\ Goto("main", "v_ckill")
  /\ UNCHANGED <<cfg, stop, loopVars, videoVars, mainVars, hist>>

\* cleanup_process: process.wait(timeout=PROCESS_WAIT_TIMEOUT) returns when
\* the process has exited, or raises TimeoutExpired while it is still running
cleanup_process_wait ==
  /\ At("main", "v_cwait")
  /\ \/ /\ alive' = alive \ {last_proc}
        /\ Goto("main", AfterVideo)
        /\ UNCHANGED hist
     \/ /\ last_proc \in alive
        /\ Goto("main", "v_ckill")
        /\ hist' = [hist EXCEPT !.cleanup.timeout = TRUE]
        /\ UNCHANGED alive
  /\ UNCHANGED <<cfg, stop, loopVars, process, last_proc, new_process, phase,
                 mainVars>>

\* cleanup_process: except subprocess.TimeoutExpired: process.kill()
cleanup_process_kill ==
  /\ At("main", "v_ckill")
  /\ alive' = alive \ {last_proc}
  /\ Goto("main", AfterVideo)
  /\ hist' = [hist EXCEPT !.cleanup.kills = Bump(@)]
  /\ UNCHANGED <<cfg, stop, loopVars, process, last_proc, new_process, phase,
                 mainVars>>

\* the supervised player exits on its own (crash, end of file, signal)
ProcExit ==
  /\ \E h \in alive : alive' = alive \ {h}
  /\ UNCHANGED <<cfg, stop, pc, loopVars, process, last_proc, new_process,
                 phase, mainVars, hist>>

handle_video_process ==
  \/ handle_video_process_poll \/ handle_video_process_popen
  \/ handle_video_process_grace \/ handle_video_process_chk2
  \/ handle_unexpected_error_term \/ handle_unexpected_error_wait
  \/ handle_unexpected_error_sleep

run_video_loop ==
  run_video_loop_head \/ run_video_loop_wait \/ run_video_loop_next

video_main ==
  \/ check_mpv_installed \/ run_video_loop \/ handle_video_process
  \/ cleanup_process \/ cleanup_process_wait \/ cleanup_process_kill

\* -------------------------------------------------------- skaven/main.py
\* mutant of StartedThreads: the handle of the lighting thread is not kept
StartedThreads_sounds == IF cfg.no_sounds THEN <<>> ELSE <<"sounds">>
\* start_threads: one thread for sounds.main unless --no-sounds, one for the
\* lighting loop unless --no-lighting; both are started before it returns
StartedThreads ==
  (IF cfg.no_sounds THEN <<>> ELSE <<"sounds">>)
    \o (IF cfg.no_lighting THEN <<>> ELSE <<"lighting">>)

start_threads ==
  /\ At("main", "m_start")
  /\ threads' = StartedThreads
  /\ pc' = [t \in Threads |->
              IF t = "main" THEN "m_hvp"
              ELSE IF t = "sounds" /\ ~cfg.no_sounds THEN "s_init"
              ELSE IF t = "lighting" /\ ~cfg.no_lighting THEN "l_wait"
              ELSE pc[t]]
  /\ hist' = [hist EXCEPT !.started = TRUE]
  /\ UNCHANGED <<cfg, stop, loopVars, videoVars, ki, joinPos>>

\* handle_video_playback: if not args.no_video: video_loop.main(stop_event)
\* else: while not stop_event.is_set()
handle_video_playback ==
  /\ At("main", "m_hvp")
  /\ IF cfg.no_video
       THEN Goto("main", "nv_chk") /\ UNCHANGED phase
       ELSE Goto("main", "v_mpv") /\ phase' = "run"
  /\ UNCHANGED <<cfg, stop, loopVars, process, last_proc, new_process, alive,
                 mainVars, hist>>

\* handle_video_playback, video disabled: while not stop_event.is_set()
handle_video_playback_chk ==
  /\ At("main", "nv_chk")
  /\ Goto("main", IF is_set THEN Done ELSE "nv_sleep")
  /\ UNCHANGED <<cfg, stop, loopVars, videoVars, mainVars, hist>>

\* handle_video_playback, video disabled: time.sleep(MAIN_LOOP_SLEEP_S) ends
handle_video_playback_sleep ==
  /\ At("main", "nv_sleep")
  /\ Goto("main", "nv_chk")
  /\ UNCHANGED <<cfg, stop, loopVars, videoVars, mainVars, hist>>

\* handle_shutdown: if not args.no_video: video_loop.main(stop_event)
\* else: while not stop_event.is_set()
handle_shutdown_entry ==
  /\ At("main", "hs_entry")
  /\ IF cfg.no_video
       THEN Goto("main", "hs_chk") /\ UNCHANGED phase
       ELSE Goto("main", "v_mpv") /\ phase' = "shutdown"
  /\ UNCHANGED <<cfg, stop, loopVars, process, last_proc, new_process, alive,
                 mainVars, hist>>

\* handle_shutdown, video disabled: while not stop_event.is_set()
handle_shutdown_chk ==
  /\ At("main", "hs_chk")
  /\ Goto("main", IF is_set THEN "hs_set" ELSE "hs_wait")
  /\ UNCHANGED <<cfg, stop, loopVars, videoVars, mainVars, hist>>

\* handle_shutdown, video disabled: stop_event.wait(MAIN_LOOP_SLEEP_S) returns
handle_shutdown_wait ==
  /\ At("main", "hs_wait")
  /\ Goto("main", "hs_chk")
  /\ HWait("main")
  /\ UNCHANGED <<cfg, stop, loopVars, videoVars, mainVars>>

\* mutant of handle_shutdown_set: the event is toggled instead of set
handle_shutdown_set_toggle ==
  /\ At("main", "hs_set")
  /\ stop' = ~stop
  /\ joinPos' = 1
  /\ Goto("main", "hs_join")
  /\ hist' = [hist EXCEPT !.tried = {}]
  /\ UNCHANGED <<cfg, loopVars, videoVars, ki, threads>>

\* handle_shutdown: stop_event.set(); _join_threads(threads, logger)
handle_shutdown_set ==
  /\ At("main", "hs_set")
  /\ stop' = TRUE
  /\ joinPos' = 1
  /\ Goto("main", "hs_join")
  /\ hist' = [hist EXCEPT !.tried = {}]
  /\ UNCHANGED <<cfg, loopVars, videoVars, ki, threads>>

\* _join_threads: for t in threads: t.join() returns when t has ended;
\* after the last one handle_shutdown and main return
join_threads ==
  /\ At("main", "hs_join")
  /\ IF joinPos > Len(threads)
       THEN /\ Goto("main", Done)
            /\ hist' = [hist EXCEPT !.shut = TRUE]
            /\ UNCHANGED joinPos
       ELSE /\ pc[threads[joinPos]] \in Finished
            /\ joinPos' = joinPos + 1
            /\ hist' = [hist EXCEPT !.tried = @ \cup {threads[joinPos]}]
            /\ UNCHANGED pc
  /\ UNCHANGED <<cfg, stop, loopVars, videoVars, ki, threads>>

\* mutant of join_threads_except: the exception of join() is not caught
join_threads_except_raise ==
  /\ At("main", "hs_join")
  /\ joinPos <= Len(threads)
  /\ Goto("main", Raised)
  /\ hist' = [hist EXCEPT !.tried = @ \cup {threads[joinPos]},
                          !.joinErrs = TRUE]
  /\ UNCHANGED <<cfg, stop, loopVars, videoVars, mainVars>>

\* _join_threads: t.join() raises AttributeError or RuntimeError (a thread
\* object that cannot be joined); the exception is logged and the loop goes
\* on with the next thread
join_threads_except ==
  /\ At("main", "hs_join")
  /\ joinPos <= Len(threads)
  /\ joinPos' = joinPos + 1
  /\ hist' = [hist EXCEPT !.tried = @ \cup {threads[joinPos]},
                          !.joinErrs = TRUE]
  /\ UNCHANGED <<cfg, stop, pc, loopVars, videoVars, ki, threads>>

\* handle_shutdown called once more, with the same arguments, after it has
\* returned
handle_shutdown_again ==
  /\ At("main", Done)
  /\ hist.shut
  /\ hist.calls = 1
  /\ Goto("main", "hs_entry")
  /\ hist' = [hist EXCEPT !.calls = 2, !.shut = FALSE]
  /\ UNCHANGED <<cfg, stop, loopVars, videoVars, mainVars>>

handle_shutdown ==
  \/ handle_shutdown_entry \/ handle_shutdown_chk \/ handle_shutdown_wait
  \/ handle_shutdown_set \/ join_threads

\* pcs of main inside handle_video_process but outside its except clauses
InHandleVideoProcess == {"v_poll", "v_popen", "v_grace", "v_chk2"}
\* pcs of main inside video_loop.main
InVideoMain ==
  {"v_mpv", "v_head", "v_wait", "v_loop", "v_cleanup", "v_cwait", "v_ckill",
   "v_unexp", "v_uwait", "v_usleep"} \cup InHandleVideoProcess
\* pcs of main in the run phase: handle_video_playback and what it calls
InRunPhase ==
  At("main", "m_hvp") \/ At("main", "nv_chk") \/ At("main", "nv_sleep")
    \/ (pc["main"] \in InVideoMain /\ phase = "run")

\* where a KeyboardInterrupt raised at pc["main"] is caught:
\*   handle_video_process: except KeyboardInterrupt: return None
\*   handle_video_playback: except around video_loop.main and around time.sleep
\*   main: except KeyboardInterrupt: handle_shutdown(...)
\*   handle_shutdown: except KeyboardInterrupt: pass
\*   anywhere else it escapes main
InterruptTarget ==
  CASE pc["main"] \in InHandleVideoProcess -> "v_loop"
    [] pc["main"] \in InVideoMain \ InHandleVideoProcess -> VideoInterrupted
    [] pc["main"] = "nv_sleep" -> Done
    [] pc["main"] \in {"m_hvp", "nv_chk"} -> "hs_entry"
    [] pc["main"] \in {"hs_entry", "hs_chk", "hs_wait"} -> "hs_set"
    [] OTHER -> Raised

\* the user presses Ctrl-C: Python raises KeyboardInterrupt in the main thread
KeyboardInterrupt ==
  /\ cfg.prog \in {"orchestrator", "video"}
  /\ pc["main"] \notin Finished \cup {Off}
  /\ ki < MaxKI
  /\ ki' = ki + 1
  /\ Goto("main", InterruptTarget)
  /\ process' = IF pc["main"] \in InHandleVideoProcess THEN None ELSE process
  /\ new_process' = None
  /\ hist' = [hist EXCEPT
               !.kiRun = @ \/ InRunPhase,
               !.calls = IF InterruptTarget = "hs_entry" THEN 1 ELSE @,
               !.ki2 = @ \/ hist.calls = 2,
               !.poll = "none",
               !.exc = FALSE,
               !.none = IF pc["main"] \in InHandleVideoProcess
                          THEN "interrupt" ELSE @]
  /\ UNCHANGED <<cfg, stop, loopVars, last_proc, alive, phase, joinPos, threads>>

\* ------------------------------------------------------ the whole program
Subsets(S, n) == {X \in SUBSET S : Cardinality(X) <= n}

\* the inputs of a run: the entry point, the CLI flags of skaven/main.py, the
\* categories that have audio files, whether a display is attached
Configs ==
  {c \in [prog : {"orchestrator"}, no_sounds : BOOLEAN, no_video : BOOLEAN,
           no_lighting : BOOLEAN, headless : BOOLEAN,
           cats : {X \cup S : X \in Subsets(SoundLoops, MaxCats),
                              S \in SUBSET {"screams"}}] :
     /\ c.no_video => c.headless
     /\ c.no_sounds => c.cats = {}}
  \cup
  [prog : {"sounds"}, no_sounds : {FALSE}, no_video : {TRUE},
   no_lighting : {TRUE}, headless : {TRUE},
   cats : {X \cup S : X \in Subsets(SoundLoops, MaxCats),
                      S \in SUBSET {"screams"}}]
  \cup
  [prog : {"lighting", "bell"}, no_sounds : {TRUE}, no_video : {TRUE},
   no_lighting : {TRUE}, headless : {TRUE}, cats : {{}}]
  \cup
  [prog : {"video"}, no_sounds : {TRUE}, no_video : {FALSE},
   no_lighting : {TRUE}, headless : BOOLEAN, cats : {{}}]

\* the first pc of every thread of the entry point
InitPc(c) ==
  [t \in Threads |->
     CASE t = "main" ->
            IF c.prog = "orchestrator" THEN "m_start"
            ELSE IF c.prog = "video" THEN "v_mpv" ELSE Off
       [] t = "sounds" -> IF c.prog = "sounds" THEN "s_init" ELSE Off
       [] t = "lighting" -> IF c.prog = "lighting" THEN "l_wait" ELSE Off
       [] t = "bell" -> IF c.prog = "bell" THEN "b_top" ELSE Off
       [] t = "setter" -> IF c.prog = "orchestrator" THEN Off ELSE "set_sleep"
       [] OTHER -> Off]

Init ==
  /\ cfg \in Configs
  /\ stop = FALSE
  /\ pc = InitPc(cfg)
  /\ idx = 0
  /\ movesLeft = 0
  /\ rat_files = IF "rats" \in cfg.cats THEN NumRats ELSE 0
  /\ channels = RATS_CHANNELS
  /\ horde = NoHorde
  /\ bell = NoBell
  /\ pixels = NoPixels
  /\ bmain = NoBellMain
  /\ timing = DefaultTiming
  /\ amb = NoAmbient
  /\ chanUse = NoUse
  /\ led = NoLed
  /\ process = None
  /\ last_proc = None
  /\ new_process = None
  /\ alive = {}
  /\ phase = IF cfg.prog = "video" THEN "alone" ELSE "none"
  /\ ki = 0
  /\ joinPos = 0
  /\ threads = <<>>
  /\ hist = ZeroHist

Next ==
  \/ ambient_loop \/ chains_loop \/ main_loop \/ rats_loop \/ sounds_main
  \/ set_event_soon
  \/ flicker_breathe
  \/ random_trigger_loop
  \/ video_main \/ ProcExit
  \/ start_threads \/ handle_video_playback \/ handle_video_playback_chk
  \/ handle_video_playback_sleep \/ handle_shutdown
  \/ KeyboardInterrupt

Spec == Init /\ [][Next]_vars

\* one module run on its own (sounds.main, the lighting loop, the bell loop,
\* video_loop.main), with an event that its caller may set at any time
ModuleInit == Init /\ cfg.prog # "orchestrator"

NextModule ==
  \/ ambient_loop \/ chains_loop \/ main_loop \/ rats_loop \/ sounds_main
  \/ set_event_soon
  \/ flicker_breathe
  \/ random_trigger_loop
  \/ video_main \/ ProcExit
  \/ KeyboardInterrupt

ModuleSpec == ModuleInit /\ [][NextModule]_vars

\* every thread that can take a step is scheduled in the end; the event's
\* holder, the player and the user owe the program nothing
ThreadFairness ==
  /\ WF_vars(ambient_loop) /\ WF_vars(chains_loop) /\ WF_vars(main_loop)
  /\ WF_vars(rats_loop) /\ WF_vars(sounds_main) /\ WF_vars(flicker_breathe)
  /\ WF_vars(random_trigger_loop) /\ WF_vars(video_main)

FairModuleSpec == ModuleSpec /\ ThreadFairness

\* sounds.main run on any sound directory: every combination of categories
\* with files. The loop threads are started but not scheduled here.
SoundsInit ==
  /\ cfg \in [prog : {"sounds"}, no_sounds : {FALSE}, no_video : {TRUE},
              no_lighting : {TRUE}, headless : {TRUE}, cats : SUBSET Cats]
  /\ stop = FALSE
  /\ pc = InitPc(cfg)
  /\ idx = 0
  /\ movesLeft = 0
  /\ rat_files = IF "rats" \in cfg.cats THEN NumRats ELSE 0
  /\ channels = RATS_CHANNELS
  /\ horde = NoHorde
  /\ bell = NoBell
  /\ pixels = NoPixels
  /\ bmain = NoBellMain
  /\ timing = DefaultTiming
  /\ amb = NoAmbient
  /\ chanUse = NoUse
  /\ led = NoLed
  /\ process = None
  /\ last_proc = None
  /\ new_process = None
  /\ alive = {}
  /\ phase = "none"
  /\ ki = 0
  /\ joinPos = 0
  /\ threads = <<>>
  /\ hist = ZeroHist

NextSounds == sounds_main \/ set_event_soon

SoundsSpec == SoundsInit /\ [][NextSounds]_vars
\* sounds.main as the entry point with Ctrl-C, on any sound directory without
\* chains and main files; the loops that own channels are scheduled
InterruptedInit == SoundsInit /\ cfg.cats \subseteq {"ambient", "rats", "screams"}

NextInterrupted ==
  \/ sounds_main \/ sounds_main_interrupted
  \/ ambient_loop \/ rats_loop
  \/ set_event_soon

InterruptedSpec == InterruptedInit /\ [][NextInterrupted]_vars
\* rats_loop called as a function on any pool of files and any list of
\* channels, with an event that its holder may set at any moment
RatsInit ==
  /\ cfg = [prog |-> "sounds", no_sounds |-> FALSE, no_video |-> TRUE,
            no_lighting |-> TRUE, headless |-> TRUE, cats |-> {}]
  /\ stop = FALSE
  /\ pc = [t \in Threads |->
             IF t = "rats" THEN "r_entry"
             ELSE IF t = "setter" THEN "set_sleep" ELSE Off]
  /\ idx = 0
  /\ movesLeft = 0
  /\ rat_files \in 0..MaxFiles
  /\ channels \in 0..MaxChans
  /\ horde = NoHorde
  /\ bell = NoBell
  /\ pixels = NoPixels
  /\ bmain = NoBellMain
  /\ timing = DefaultTiming
  /\ amb = NoAmbient
  /\ chanUse = NoUse
  /\ led = NoLed
  /\ process = None
  /\ last_proc = None
  /\ new_process = None
  /\ alive = {}
  /\ phase = "none"
  /\ ki = 0
  /\ joinPos = 0
  /\ threads = <<>>
  /\ hist = ZeroHist

NextRats == rats_loop \/ set_event_soon

RatsSpec == RatsInit /\ [][NextRats]_vars
\* move_bell called as a function: with or without a servo, with the event
\* set or unset on entry and set by its holder at any moment, and with
\* BELL_SWING_COUNT_MIN as configured or patched to zero
MoveBellInit ==
  /\ cfg = [prog |-> "bell", no_sounds |-> TRUE, no_video |-> TRUE,
            no_lighting |-> TRUE, headless |-> TRUE, cats |-> {}]
  /\ stop \in BOOLEAN
  /\ pc = [t \in Threads |->
             IF t = "bell" THEN "mb_entry"
             ELSE IF t = "setter" THEN "set_sleep" ELSE Off]
  /\ idx = 0
  /\ movesLeft = 0
  /\ rat_files = 0
  /\ channels = RATS_CHANNELS
  /\ horde = NoHorde
  /\ \E m \in {0, BELL_SWING_COUNT_MIN} : \E s \in BOOLEAN :
       bell = [NoBell EXCEPT !.min_swings = m, !.servo = s, !.ret = Done]
  /\ pixels = NoPixels
  /\ bmain = NoBellMain
  /\ timing = DefaultTiming
  /\ amb = NoAmbient
  /\ chanUse = NoUse
  /\ led = NoLed
  /\ process = None
  /\ last_proc = None
  /\ new_process = None
  /\ alive = {}
  /\ phase = "none"
  /\ ki = 0
  /\ joinPos = 0
  /\ threads = <<>>
  /\ hist = ZeroHist

NextMoveBell == move_bell \/ set_event_soon

MoveBellSpec == MoveBellInit /\ [][NextMoveBell]_vars
\* a NeoPixel wrapper after its construction, with real hardware behind it
\* (a handle) or as a stub (no handle), used by any sequence of calls
PixelInit ==
  /\ cfg = [prog |-> "lighting", no_sounds |-> TRUE, no_video |-> TRUE,
            no_lighting |-> TRUE, headless |-> TRUE, cats |-> {}]
  /\ stop = FALSE
  /\ pc = [t \in Threads |-> Off]
  /\ idx = 0
  /\ movesLeft = 0
  /\ rat_files = 0
  /\ channels = RATS_CHANNELS
  /\ horde = NoHorde
  /\ bell = NoBell
  /\ \E h, a \in BOOLEAN :
       pixels = [NoPixels EXCEPT !.live = TRUE, !.handle = h, !.auto_write = a]
  /\ bmain = NoBellMain
  /\ timing = DefaultTiming
  /\ amb = NoAmbient
  /\ chanUse = NoUse
  /\ led = NoLed
  /\ process = None
  /\ last_proc = None
  /\ new_process = None
  /\ alive = {}
  /\ phase = "none"
  /\ ki = 0
  /\ joinPos = 0
  /\ threads = <<>>
  /\ hist = ZeroHist

NextPixel == neopixel_show \/ neopixel_fill \/ neopixel_setitem

PixelSpec == PixelInit /\ [][NextPixel]_vars
\* bell.main called with its own event (stop_event None) or with an event of
\* the caller, to which a lighting loop of the caller is bound too; the global
\* servo already set (as the tests do) or still to be constructed
BellMainInit ==
  /\ cfg = [prog |-> "bell", no_sounds |-> TRUE, no_video |-> TRUE,
            no_lighting |-> TRUE, headless |-> TRUE, cats |-> {}]
  /\ stop = FALSE
  /\ \E own, servo \in BOOLEAN :
       /\ bmain = [NoBellMain EXCEPT !.live = TRUE, !.own = own, !.servo = servo]
       /\ pc = [t \in Threads |->
                  IF t = "bell" THEN "bm_mixer"
                  ELSE IF t = "lighting" /\ ~own THEN "l_wait"
                  ELSE IF t = "setter" /\ ~own THEN "set_sleep" ELSE Off]
  /\ idx = 0
  /\ movesLeft = 0
  /\ rat_files = 0
  /\ channels = RATS_CHANNELS
  /\ horde = NoHorde
  /\ bell = NoBell
  /\ pixels = NoPixels
  /\ timing = DefaultTiming
  /\ amb = NoAmbient
  /\ chanUse = NoUse
  /\ led = NoLed
  /\ process = None
  /\ last_proc = None
  /\ new_process = None
  /\ alive = {}
  /\ phase = "none"
  /\ ki = 0
  /\ joinPos = 0
  /\ threads = <<>>
  /\ hist = ZeroHist

NextBellMain ==
  bell_main \/ random_trigger_loop \/ flicker_breathe \/ set_event_soon

BellMainSpec == BellMainInit /\ [][NextBellMain]_vars
\* chains_loop and random_trigger_loop on one event, under every
\* configuration of their interval bounds, the event set after a while
IntervalInit ==
  /\ cfg = [prog |-> "sounds", no_sounds |-> FALSE, no_video |-> TRUE,
            no_lighting |-> TRUE, headless |-> TRUE, cats |-> {"chains"}]
  /\ stop = FALSE
  /\ pc = [t \in Threads |->
             IF t = "chains" THEN "c_top"
             ELSE IF t = "bell" THEN "b_top"
             ELSE IF t = "setter" THEN "set_sleep" ELSE Off]
  /\ idx = 0
  /\ movesLeft = 0
  /\ rat_files = 0
  /\ channels = RATS_CHANNELS
  /\ horde = NoHorde
  /\ bell = NoBell
  /\ pixels = NoPixels
  /\ bmain = NoBellMain
  /\ timing \in Timings
  /\ timing["mainl"] = DefaultTiming["mainl"]
  /\ amb = NoAmbient
  /\ chanUse = NoUse
  /\ led = NoLed
  /\ process = None
  /\ last_proc = None
  /\ new_process = None
  /\ alive = {}
  /\ phase = "none"
  /\ ki = 0
  /\ joinPos = 0
  /\ threads = <<>>
  /\ hist = ZeroHist

NextInterval ==
  chains_loop \/ random_trigger_loop \/ set_event_soon

IntervalSpec == IntervalInit /\ [][NextInterval]_vars
\* skaven/main.py with no files for the four looped sound categories
OrchInit == Init /\ cfg.prog = "orchestrator" /\ cfg.cats \subseteq {"screams"}

NextOrch ==
  \/ sounds_main \/ flicker_breathe
  \/ video_main \/ ProcExit
  \/ start_threads \/ handle_video_playback \/ handle_video_playback_chk
  \/ handle_video_playback_sleep \/ handle_shutdown
  \/ KeyboardInterrupt

OrchSpec == OrchInit /\ [][NextOrch]_vars

FairOrchSpec ==
  /\ OrchSpec
  /\ WF_vars(sounds_main) /\ WF_vars(flicker_breathe) /\ WF_vars(video_main)
  /\ WF_vars(start_threads \/ handle_video_playback \/ handle_video_playback_chk
               \/ handle_video_playback_sleep \/ handle_shutdown)

\* handle_shutdown and _join_threads used as functions by a caller: a join
\* may raise, and handle_shutdown may be called once more after it returned
NextCaller == NextOrch \/ join_threads_except \/ handle_shutdown_again

CallerSpec == OrchInit /\ [][NextCaller]_vars

\* ------------------------------------------------------------- properties
\* the loops bound to the stop event
LoopThreads == SoundLoops \cup {"lighting", "bell"}
\* pcs of main inside the poll loop of run_video_loop, past the result check
InPollLoop ==
  {"v_wait", "v_poll", "v_popen", "v_grace", "v_chk2", "v_unexp", "v_uwait",
   "v_usleep"}
\* pcs of main inside handle_shutdown and what it calls
InShutdown ==
  \/ pc["main"] \in {"hs_entry", "hs_chk", "hs_wait", "hs_set", "hs_join"}
  \/ (pc["main"] \in InVideoMain /\ phase = "shutdown")
\* pcs of a blocking pause that is not a timed wait on the stop event:
\* time.sleep (main.py:176, video_loop.py:132, 210) and process.wait() (209)
UninterruptiblePauses == {"nv_sleep", "v_grace", "v_usleep", "v_uwait"}

\* C1: once the stop event is set, every loop bound to it returns after at
\* most one further wait on the event: no loop sees a second wait return with
\* the event set, and from the set on all loops end and stay ended.
C1_LoopsReturnWithinOneWait ==
  /\ [](\A t \in LoopThreads : hist.waitsAfter[t] <= 1)
  /\ [](stop => <>[](\A t \in LoopThreads : pc[t] \in Finished \cup {Off}))

\* C1 witness: the event is set and a loop has returned after exactly one
\* further wait.
C1_Witness ==
  \E t \in LoopThreads : stop /\ pc[t] = Done /\ hist.waitsAfter[t] = 1

\* C2 as claimed: after set() has returned no loop (sound loop, scream loop,
\* bell, lighting, video poll loop) begins a new play, horde, draw, frame or poll.
C2_NoNewIterationAfterSet ==
  \A t \in LoopThreads \cup {"sounds", "main"} : hist.startsAfter[t] = 0

\* C2 as amended: after set() has returned every loop begins at most one more
\* top-level iteration, the one whose check of the event came before the set.
C2_AtMostOneIterationAfterSet ==
  \A t \in LoopThreads \cup {"sounds", "main"} : hist.startsAfter[t] <= 1

\* C2 witness: a loop began one iteration with the event set and then ended.
C2_Witness ==
  \E t \in LoopThreads : stop /\ hist.startsAfter[t] = 1 /\ pc[t] = Done

\* C3: when a KeyboardInterrupt has arrived in the run phase of main, main has
\* set the stop event and joined every started thread once it has returned.
C3_InterruptShutsDown ==
  (pc["main"] = Done /\ hist.kiRun) => (stop /\ hist.shut)

\* C4: handle_shutdown always returns, with the stop event set.
C4_ShutdownReturns ==
  [](InShutdown => <>(pc["main"] = Done /\ hist.shut /\ stop))

\* C5: no loop, no step of the video poll path and no step of the run loop of
\* the orchestrator pauses in anything but a timed wait on the stop event.
C5_OnlyEventWaits ==
  \A t \in Threads \ {"setter"} : pc[t] \notin UninterruptiblePauses

\* C6: a playback call that raises does not end its sound loop: while the
\* stop event is unset, a loop whose playback raised is still running.
C6_PlaybackErrorKeepsLoop ==
  \A t \in SoundLoops : (hist.errs[t] > 0 /\ ~stop) => pc[t] \notin Finished

C8_ExitedIsRelaunched ==
  [][(/\ pc["main"] = "v_poll"
      /\ process # None /\ process \notin alive
      /\ ~stop
      /\ pc'["main"] \notin {"v_poll", "v_unexp"}
      /\ ki' = ki)
     => pc'["main"] = "v_popen"]_vars

\* C8 witness: the poll found the exit and the supervisor is at its Popen call.
C8_Witness ==
  pc["main"] = "v_popen" /\ hist.poll = "exited" /\ ~stop

\* C9 as claimed: no Popen call is made once the stop event is set.
C9_NoLaunchAfterSet == hist.popens = 0

\* C9 as amended: once the stop event is set at most one Popen call follows,
\* in the poll whose wait on the event had already timed out.
C9_AtMostOneLaunchAfterSet == hist.popens <= 1

\* C9 witness: one Popen call was made with the event set, and the poll loop
\* has ended since.
C9_Witness ==
  hist.popens = 1 /\ stop /\ pc["main"] \in {"v_cleanup", "v_cwait", Done}

\* C10: handle_video_process called with a handle whose poll() reports it
\* running returns that handle and launches nothing: process, the set of
\* running processes and new_process are as before.
C10_RunningIsKept ==
  [][(/\ pc["main"] = "v_poll"
      /\ process \in alive
      /\ pc'["main"] \notin {"v_poll", "v_unexp"}
      /\ ki' = ki)
     => (/\ pc'["main"] = "v_loop"
         /\ process' = process
         /\ alive' = alive
         /\ new_process' = new_process)]_vars

\* C10 witness: the poll found the process running and handle_video_process
\* has returned it.
C10_Witness ==
  pc["main"] = "v_loop" /\ hist.poll = "running" /\ process \in alive

\* C11: when the newly launched subprocess has already exited at the check
\* after the grace sleep, handle_video_process classifies it as crashed and
\* returns None by a normal return: control is back in run_video_loop with
\* process = None, not in an exception handler.
C11_CrashReturnsNone ==
  [][(/\ pc["main"] = "v_chk2"
      /\ new_process \notin alive
      /\ pc'["main"] # "v_chk2"
      /\ ki' = ki)
     => (/\ pc'["main"] = "v_loop"
         /\ process' = None
         /\ hist'.none = "crash")]_vars

\* C11 witness: the launched process died within the grace sleep and
\* handle_video_process has returned None for it.
C11_Witness ==
  pc["main"] = "v_loop" /\ hist.none = "crash" /\ process = None

\* C12: cleanup_process sends terminate exactly when the handle is not None
\* and the process is running; it sends kill only after that terminate and
\* only when its timed wait has expired; for a None handle or an exited
\* process it sends neither.
C12_TerminateThenKill ==
  LET c == hist.cleanup
  IN /\ (c.found = "running") <=> (c.terms = 1)
     /\ c.found \in {"no", "none", "exited"} => (c.terms = 0 /\ c.kills = 0)
     /\ c.terms <= 1 /\ c.kills <= 1
     /\ c.kills = 1 => (c.terms = 1 /\ c.timeout)
     /\ pc["main"] = "v_ckill" => (c.terms = 1 /\ c.timeout)

\* C12 witness: the process was running, terminate was sent, the wait timed
\* out and kill was sent.
C12_Witness ==
  /\ hist.cleanup.found = "running"
  /\ hist.cleanup.terms = 1
  /\ hist.cleanup.timeout
  /\ hist.cleanup.kills = 1

\* C13: no exception raised while handle_video_process polls or launches
\* reaches the poll loop, and each such call returns None: when control is
\* back in run_video_loop after a launch failure or an unexpected exception,
\* process is None.
C13_ErrorsReturnNone ==
  /\ (cfg.prog = "video" /\ ki = 0) => pc["main"] # Raised
  /\ (pc["main"] = "v_loop" /\ (hist.none = "launch" \/ hist.exc))
       => process = None

\* C14: in a headless or video-disabled environment run_video_loop returns
\* None at once: it never enters its poll loop (no wait on the event, no poll,
\* no launch), no subprocess exists and the handle it returns is None. The
\* environment is looked at once per call, before the poll loop: inside the
\* loop the count of evaluations is still one.
C14_HeadlessSkipsOnce ==
  /\ is_headless_environment =>
       /\ pc["main"] \notin InPollLoop \cup {"v_loop", "v_cwait", "v_ckill"}
       /\ alive = {}
       /\ last_proc = None
       /\ hist.waitsAfter["main"] = 0
  /\ hist.hchecks <= 1
  /\ pc["main"] \in InPollLoop \cup {"v_loop"} =>
       (hist.hchecks = 1 /\ ~is_headless_environment)

\* C14 witness: video_loop.main has returned in a headless environment after
\* one look at the environment, with the stop event still unset.
C14_Witness ==
  /\ cfg.prog = "video"
  /\ is_headless_environment
  /\ hist.hchecks = 1
  /\ hist.cleanup.found = "none"
  /\ pc["main"] = Done
  /\ ~stop

\* C15: when the video subprocess exits at once after its launch, the
\* supervisor returns no handle and the orchestrator goes on: no step of the
\* supervisor sets the stop event or moves another thread, and after such a
\* crash in the run phase the event is unset and no sound or lighting thread
\* has returned.
C15_CrashLeavesOthersRunning ==
  /\ [][video_main =>
          (stop' = stop /\ \A t \in Threads \ {"main"} : pc'[t] = pc[t])]_vars
  /\ []((cfg.prog = "orchestrator" /\ hist.none = "crash" /\ phase = "run")
          => (/\ ~stop
              /\ process = None
              /\ \A t \in LoopThreads \cup {"sounds"} : pc[t] # Done))

\* C15 witness: the player crashed on launch in the run phase, video playback
\* has ended without a handle, the event is unset and the sound and lighting
\* threads are still in their loops.
C15_Witness ==
  /\ cfg.prog = "orchestrator"
  /\ hist.none = "crash"
  /\ phase = "run"
  /\ pc["main"] = Done
  /\ bmain = NoBellMain
  /\ timing = DefaultTiming
  /\ amb = NoAmbient
  /\ chanUse = NoUse
  /\ led = NoLed
  /\ process = None
  /\ ~stop
  /\ pc["lighting"] \in {"l_wait", "l_frame"}
  /\ pc["sounds"] \in {"s_wait", "s_play"}

\* the threads of the ambient behaviours: the sound loops, sounds.main and the
\* lighting loop
AmbientThreads == SoundLoops \cup {"sounds", "lighting"}

C17_JoinsEveryThread ==
  /\ [][(pc["main"] = "hs_join" /\ pc'["main"] # "hs_join" /\ ki' = ki)
          => (/\ pc'["main"] = Done
              /\ hist'.shut
              /\ hist'.tried = {threads[i] : i \in 1..Len(threads)})]_vars
  /\ [](pc["main"] = "hs_join"
          => hist.tried = {threads[i] : i \in 1..(joinPos - 1)})

\* C17 witness: the join of the first of two threads raised while that thread
\* was still running, the second was joined all the same and _join_threads
\* has returned.
C17_Witness ==
  /\ Len(threads) = 2
  /\ hist.joinErrs
  /\ hist.tried = {"sounds", "lighting"}
  /\ pc["lighting"] \in Finished
  /\ pc["sounds"] \notin Finished
  /\ pc["main"] = Done
  /\ hist.shut

C19_StopIsMonotonic == [][stop => stop']_vars

\* C19 witness: the event was set by handle_shutdown, the threads have seen
\* it, a second shutdown has run, and the event is still set.
C19_Witness ==
  /\ stop
  /\ hist.calls = 2
  /\ hist.shut
  /\ \E t \in {"sounds", "lighting"} : pc[t] = Done /\ hist.waitsAfter[t] = 1

\* start_threads: the behaviours it has a flag for, and whether the flag
\* leaves them on
Enabled(b) ==
  CASE b = "sounds" -> ~cfg.no_sounds
    [] b = "lighting" -> ~cfg.no_lighting

\* the handles of thread b in the list start_threads returned
HandlesOf(b) == {i \in 1..Len(threads) : threads[i] = b}

SoundsStarted ==
  \/ pc["sounds"] \in {"s_first", "s_wait", "s_play", Done}
  \/ hist.errs["sounds"] > 0

\* C21: once sounds.main is past its start-up, exactly one loop thread has
\* been started for each of ambient, chains, main and rats that has at least
\* one file, and none for a category without files (so none at all when every
\* category is empty); before that no loop thread exists.
C21_OneLoopPerCategory ==
  \A t \in SoundLoops :
    /\ SoundsStarted
         => /\ hist.spawns[t] = IF t \in cfg.cats THEN 1 ELSE 0
            /\ pc[t] # Off <=> t \in cfg.cats
    /\ ~SoundsStarted => hist.spawns[t] = 0 /\ pc[t] = Off

\* C21 witness: sounds.main has started its loops on a directory where ambient
\* and rats have files and chains and main have none
C21_Witness ==
  /\ pc["sounds"] = "s_first"
  /\ cfg.cats \cap SoundLoops = {"ambient", "rats"}
  /\ hist.spawns = [t \in SoundLoops |->
                      IF t \in {"ambient", "rats"} THEN 1 ELSE 0]

\* C21 witness of the empty directory: start-up is over and no loop thread
\* was started
C21_WitnessEmpty ==
  /\ pc["sounds"] = "s_first"
  /\ cfg.cats = {}
  /\ \A t \in SoundLoops : hist.spawns[t] = 0 /\ pc[t] = Off

\* C22: a horde that played all its picks on P > 0 files and C > 0 channels
\* made exactly n play calls, 1 <= n <= min(P, C): the i-th call plays on the
\* i-th channel a file of the pool, no file is played twice, so at least one
\* sound is played and no channel receives two plays.
C22_HordePlaysDistinctPicks ==
  horde.done
    => /\ rat_files > 0 /\ channels > 0
       /\ Len(horde.plays) = horde.n
       /\ 1 <= horde.n /\ horde.n <= Min(rat_files, channels)
       /\ \A i \in 1..horde.n :
            /\ horde.plays[i].chan = i
            /\ horde.plays[i].file \in 1..rat_files
            /\ \A j \in 1..horde.n :
                 i # j => /\ horde.plays[i].file # horde.plays[j].file
                          /\ horde.plays[i].chan # horde.plays[j].chan

\* C22 witness: a horde of two sounds, the second file on the first channel
\* and the first file on the second
C22_Witness ==
  /\ pc["rats"] = "r_wait2"
  /\ horde.done /\ horde.n = 2
  /\ horde.plays[1].file = 2 /\ horde.plays[1].chan = 1
  /\ horde.plays[2].file = 1 /\ horde.plays[2].chan = 2

\* the volumes of the play calls of the current horde, added up
RECURSIVE SumVol(_)
SumVol(plays) == IF plays = <<>> THEN 0 ELSE Head(plays).vol + SumVol(Tail(plays))

C24_EmptyInputIsNoOp ==
  (rat_files = 0 \/ channels = 0)
    => /\ pc["rats"] \in {"r_entry", Done}
       /\ horde = NoHorde

\* C24, the part that holds: with an empty pool of files rats_loop returns at
\* its first statement, whatever the channels
C24_EmptyPoolReturns ==
  rat_files = 0 => pc["rats"] \in {"r_entry", Done} /\ horde = NoHorde

\* C24, the divergence: with files but no channel rats_loop has waited for the
\* fadeout and then ended with the ValueError of random.randint(1, 0)
C24_EmptyChannelsRaise ==
  /\ rat_files > 0 /\ channels = 0
  /\ pc["rats"] = Raised
  /\ horde.waited /\ horde.err /\ horde.plays = <<>>

\* every weight drawn for the current horde is zero
ZeroWeights == horde.n > 0 /\ \A i \in 1..horde.n : horde.weights[i] = 0

\* C25: when every weight of a horde is zero, the weights are normalised
\* without a division by zero and each of the n picks is played at the uniform
\* share SOUND_VOLUME_DEFAULT / n.
C25_ZeroWeightsUniformShare ==
  (horde.done /\ ZeroWeights)
    => /\ Tot(horde.weights) # 0
       /\ \A i \in 1..horde.n :
            horde.plays[i].vol = RoundDiv(SOUND_VOLUME_DEFAULT, horde.n)

\* C25, the part that holds: the divisor of the normalisation is never zero,
\* so a horde with zero weights plays all its picks and raises nothing
C25_NoDivisionByZero ==
  /\ horde.n > 0 => Tot(horde.weights) > 0
  /\ (pc["rats"] = Raised /\ ZeroWeights) => hist.errs["rats"] > 0

\* C25, the divergence: a horde of three picks with zero weights was played,
\* every pick at volume zero
C25_ZeroWeightsSilent ==
  /\ horde.done /\ ZeroWeights /\ horde.n = 3
  /\ \A i \in 1..3 : horde.plays[i].vol = 0

\* C26: in every iteration of rats_loop the fadeout of every channel is
\* requested before the fade wait; nothing is played in the iteration unless
\* that wait has returned with the event unset; and when the event is set at
\* the return of the fade wait the loop ends after that single wait, without
\* a play and without a second wait.
C26_FadeWaitThenPlay ==
  /\ (pc["rats"] = "r_wait1" \/ horde.waited) => horde.faded = 1..channels
  /\ (horde.plays # <<>> \/ horde.done \/ pc["rats"] \in {"r_wait2", "r_chk2"})
       => horde.waited /\ ~horde.waitSet
  /\ horde.waitSet
       => /\ pc["rats"] \in {"r_chk1", Done}
          /\ horde.plays = <<>> /\ ~horde.done

\* C26 witness: the event was set during the fade wait of an iteration on
\* three channels: all three were faded, nothing was played, the loop returned
C26_Witness ==
  /\ channels = 3 /\ rat_files > 0
  /\ horde.faded = {1, 2, 3}
  /\ horde.waitSet
  /\ horde.plays = <<>>
  /\ pc["rats"] = Done

\* pcs of the bell thread inside move_bell, past its entry
InMoveBell == {"mb_chk", "mb_pos", "mb_wait", "mb_mid"}

\* C27: an iteration of random_trigger_loop whose wait returned with the event
\* unset makes exactly one random draw; start_sound, move_bell and stop_sound
\* are called in that iteration only when the draw was below
\* BELL_TRIGGER_PROBABILITY, and then in this order, stop_sound being left out
\* exactly when the event is set at that point; when the draw was not below
\* it, or the wait returned with the event set, none of them is called.
C27_TollIffDrawBelow ==
  /\ bell.draws <= 1
  /\ bell.draws = 1 => bell.waited /\ ~bell.waitSet
  /\ (bell.waited /\ ~bell.waitSet)
       => (pc["bell"] = "b_draw" /\ bell.draws = 0) \/ bell.draws = 1
  /\ bell.waitSet => pc["bell"] = Done /\ bell.draws = 0
  /\ bell.ret = "b_stop" /\ bell.calls # <<>> => bell.draws = 1 /\ bell.toll
  /\ (bell.draws = 1 /\ ~bell.toll) => bell.calls = <<>> /\ pc["bell"] = "b_top"
  /\ (bell.draws = 1 /\ bell.toll)
       => /\ pc["bell"] = "b_sound" => bell.calls = <<>>
          /\ pc["bell"] = "mb_entry" => bell.calls = <<"start_sound">>
          /\ pc["bell"] \in InMoveBell \cup {"b_stop"}
               => bell.calls = <<"start_sound", "move_bell">>
          /\ pc["bell"] = "b_top"
               => \/ /\ bell.stopSeen = "unset"
                     /\ bell.calls = <<"start_sound", "move_bell", "stop_sound">>
                  \/ /\ bell.stopSeen = "set" /\ stop
                     /\ bell.calls = <<"start_sound", "move_bell">>
          /\ pc["bell"] \in {"b_sound", "mb_entry", "b_stop", "b_top"} \cup InMoveBell

\* C27 witness: the draw was below the probability and the iteration is over:
\* start_sound, move_bell and stop_sound were called, in this order
C27_Witness ==
  /\ pc["bell"] = "b_top"
  /\ bell.draws = 1 /\ bell.toll
  /\ bell.calls = <<"start_sound", "move_bell", "stop_sound">>

\* C27 witness of the silent iteration: the draw was not below the
\* probability and nothing was called
C27_WitnessSilent ==
  /\ pc["bell"] = "b_top"
  /\ bell.draws = 1 /\ ~bell.toll
  /\ bell.calls = <<>>

\* C27 witness of the interrupted toll: the event was set during move_bell and
\* stop_sound was left out
C27_WitnessNoStop ==
  /\ pc["bell"] = "b_top"
  /\ bell.draws = 1 /\ bell.toll /\ stop
  /\ bell.calls = <<"start_sound", "move_bell">>

\* C28: a call of move_bell with a servo available calls servo.mid() exactly
\* once, after the swings and never during them, on every path: all swings
\* done, a swing step raising, zero swings, the event interrupting; and no
\* exception of a swing step or of mid() leaves move_bell.
C28_ParksOnceOnEveryPath ==
  /\ pc["bell"] # Raised
  /\ bell.mids <= 1
  /\ pc["bell"] \in InMoveBell => bell.mids = 0 /\ ~bell.returned
  /\ (bell.servo /\ bell.returned) => bell.mids = 1
  /\ (bell.moveExc \/ bell.midExc) => pc["bell"] \in {"mb_mid"} \/ bell.returned
  /\ ~bell.servo => bell.mids = 0 /\ bell.writes = 0

\* C28 witness: the swing step raised and servo.mid() raised too; move_bell
\* has returned after one call of mid()
C28_Witness ==
  /\ bell.servo /\ bell.returned
  /\ bell.moveExc /\ bell.midExc
  /\ bell.mids = 1
  /\ pc["bell"] = Done

\* C28 witness of the other paths: every swing done; no swing drawn; the
\* event set before the swings were over
C28_WitnessAllSwings ==
  /\ bell.returned /\ bell.mids = 1 /\ ~bell.moveExc
  /\ bell.moves = MaxSwings /\ bell.writes = MaxSwings

C28_WitnessZeroSwings ==
  /\ bell.servo /\ bell.returned /\ bell.mids = 1
  /\ bell.moves = 0 /\ bell.writes = 0 /\ ~stop

C28_WitnessInterrupted ==
  /\ bell.returned /\ bell.mids = 1 /\ ~bell.moveExc /\ stop
  /\ bell.writes < bell.moves

\* C29 as stated: move_bell tests the event before each swing and at each
\* wait between swings; once the event is set no swing position is written,
\* and none at all when the event is set on entry.
C29_NoWriteOnceSet ==
  /\ bell.lateWrites = 0
  /\ bell.entrySet => bell.writes = 0

\* C29 as amended: once the event is set move_bell writes at most one further
\* swing position, the one whose test of the event had come back unset before
\* the event was set, and the wait after that write ends the swings; when the
\* event is set on entry it writes none at all.
C29_AtMostOneWriteOnceSet ==
  /\ bell.lateWrites <= 1
  /\ bell.entrySet => bell.writes = 0 /\ bell.lateWrites = 0
  /\ bell.lateWrites = 1 => pc["bell"] \notin {"mb_chk", "mb_pos"}

\* C29 witness: the event was set after the first swing: one position was
\* written of the two drawn, none with the event set
C29_Witness ==
  /\ bell.returned /\ stop /\ ~bell.entrySet
  /\ bell.moves = 2 /\ bell.writes = 1 /\ bell.lateWrites = 0
  /\ bell.mids = 1

\* C29 witness of the event set on entry: nothing written, servo parked
C29_WitnessOnEntry ==
  /\ bell.returned /\ bell.entrySet /\ bell.servo
  /\ bell.moves > 0 /\ bell.writes = 0 /\ bell.mids = 1

\* C30: once a backend call made by show(), fill() or a pixel assignment has
\* raised, the wrapper has dropped its handle (_pixels is None) and no later
\* call reaches the backend.
C30_FailureInvalidatesHandle ==
  pixels.errors > 0 => ~pixels.handle /\ pixels.late = 0

\* C30, the part that holds: every exception of the backend is caught and
\* logged, a wrapper without a handle never reaches the backend, and a call
\* reaches the backend at most twice
C30_ErrorsAreCaught ==
  /\ pixels.errors <= pixels.reached
  /\ pixels.reached <= 2 * pixels.ops
  /\ ~pixels.handle => pixels.reached = 0

\* C30, the divergence: the backend raised in one call and the next two calls
\* reached the backend again, which raised again
C30_BackendReachedAgain ==
  /\ pixels.handle /\ pixels.last = "setitem"
  /\ pixels.ops = 3
  /\ pixels.errors = 3
  /\ pixels.late = 2

\* --------------------------------------------------------------- C31..C40
\* C31: when the servo cannot be constructed bell.main ends there: it has not
\* entered random_trigger_loop, has run no bell step and no cleanup, and has
\* not set an event supplied by its caller, so that event is set only by its
\* holder and the caller's lighting loop bound to it has not been stopped.
C31_ServoFailureEndsOnlyBell ==
  bmain.servoFailed
    => /\ pc["bell"] = Exit1
       /\ ~bmain.entered /\ bell = NoBell /\ bmain.cleanup = <<>>
       /\ ~bmain.own => /\ ~bmain.mainSet
                        /\ stop => pc["setter"] = Done
                        /\ ~stop => pc["lighting"] \in {"l_wait", "l_frame",
                                                        "l_except", Raised}

\* C31 witness: the servo could not be constructed under an event of the
\* caller; the event is unset and the caller's lighting loop is rendering
C31_Witness ==
  /\ bmain.servoFailed /\ ~bmain.own
  /\ pc["bell"] = Exit1
  /\ ~stop
  /\ pc["lighting"] = "l_frame"

\* the cleanup calls of bell.main, in the order of the code
CleanupOrder == <<"mid", "close", "stop_sound", "quit">>

\* C37: once random_trigger_loop has ended inside bell.main, by return or by
\* KeyboardInterrupt, pygame.error or another Exception, and main has ended,
\* the cleanup has attempted servo.mid(), servo.close(), stop_sound() and
\* mixer.quit(), in this order, each one even if an earlier one raised, and
\* the event is set if main created it.
C37_CleanupRunsEveryStep ==
  (bmain.entered /\ pc["bell"] \in Finished)
    => /\ bmain.cleanup = CleanupOrder
       /\ bmain.own => stop /\ bmain.mainSet
       /\ ~bmain.own => ~bmain.mainSet

\* C37, the part that holds: the cleanup calls are attempted in the order of
\* the code; an exception of servo.mid(), servo.close() or mixer.quit() stops
\* nothing; and when stop_sound() returns the cleanup is complete and the
\* event is set if main created it.
C37_CleanupUpToStopSound ==
  /\ bmain.entered => \E n \in 0..4 : bmain.cleanup = SubSeq(CleanupOrder, 1, n)
  /\ (bmain.entered /\ pc["bell"] \in Finished)
       => /\ SubSeq(bmain.cleanup, 1, 3) = SubSeq(CleanupOrder, 1, 3)
          /\ "stop_sound" \notin bmain.raisedIn
               => /\ bmain.cleanup = CleanupOrder
                  /\ pc["bell"] = Done
                  /\ bmain.mainSet = bmain.own
          /\ "stop_sound" \in bmain.raisedIn
               => /\ pc["bell"] = Raised
                  /\ bmain.cleanup = SubSeq(CleanupOrder, 1, 3)
                  /\ ~bmain.mainSet

\* C37, the divergence: KeyboardInterrupt ended the loop, stop_sound() raised
\* in the cleanup of a main that created its event: main has ended with the
\* exception, mixer.quit() was not attempted and the event is not set
C37_StopSoundEndsCleanup ==
  /\ bmain.entered /\ bmain.own /\ bmain.how = "KeyboardInterrupt"
  /\ pc["bell"] = Raised
  /\ bmain.cleanup = <<"mid", "close", "stop_sound">>
  /\ ~stop


\* C33: no interval loop ever calls event.wait with timeout 0: when the
\* interval bounds of a loop are both zero, the timeout is clamped to a
\* positive floor.
C33_TimeoutIsPositive ==
  \A t \in IntervalLoops : timing[t].waited => timing[t].timeout > 0

\* C33, the part that holds: the timeout is the value drawn between the two
\* configured bounds, so it is positive whenever the lower bound is
C33_TimeoutWithinBounds ==
  \A t \in IntervalLoops :
    timing[t].waited
      => /\ timing[t].lo <= timing[t].timeout
         /\ timing[t].timeout <= timing[t].hi
         /\ timing[t].lo > 0 => timing[t].timeout > 0

\* C33, the divergence: both bounds of the bell loop and of chains_loop are
\* zero, and both loops have waited with timeout 0 and gone round again
C33_ZeroTimeoutSpins ==
  /\ \A t \in {"bell", "chains"} :
       /\ timing[t].lo = 0 /\ timing[t].hi = 0
       /\ timing[t].waited /\ timing[t].timeout = 0
  /\ pc["chains"] = "c_top" /\ pc["bell"] = "b_top"
  /\ ~stop


\* C34: ambient_loop plays its files in list order, from index 0, and wraps
\* to 0 after the last one; the index changes only by one step forward, taken
\* after the play wait and the fade-out wait of the iteration have both been
\* followed by a check that found the event unset.
C34_AmbientPlaysInOrder ==
  /\ [](\A i \in 1..Len(amb.played) : amb.played[i] = (i - 1) % NumAmbient)
  /\ [][idx' # idx => /\ pc["ambient"] = "a_chk2"
                      /\ amb.unset1 /\ ~stop
                      /\ idx' = (idx + 1) % NumAmbient]_vars

\* C34 happens: every file has been played once and the first is playing
\* again, the event still unset
C34_WitnessWrapped ==
  /\ Len(amb.played) > NumAmbient
  /\ amb.played[NumAmbient + 1] = 0
  /\ idx = 0 /\ pc["ambient"] = "a_wait1"
  /\ ~stop


\* the fadeouts the KeyboardInterrupt handler of sounds.main owes
KiExpected ==
  <<"set", "ambient">> \o (IF RatChans > 0 THEN <<"rats">> ELSE <<>>)

\* C35: when KeyboardInterrupt reaches the scream loop of sounds.main, main
\* sets the stop event first, then requests a fadeout on the ambient channel
\* and on every rat channel, and returns normally: the interrupt is not
\* raised again.
C35_InterruptFadesAndReturns ==
  /\ \E n \in 0..3 : n <= Len(KiExpected) /\ hist.kiOps = SubSeq(KiExpected, 1, n)
  /\ hist.kiOps # <<>> => stop
  /\ pc["sounds"] \in {"s_ki_amb", "s_ki_rats", "s_ki_sleep"} => stop
  /\ (ki = 1 /\ hist.kiOps # <<>> /\ pc["sounds"] \in Finished)
       => /\ pc["sounds"] = Done
          /\ hist.kiOps = KiExpected
          /\ hist.kiRats = 1..RatChans

\* C35 happens: the interrupt arrived while the scream loop waited with the
\* event unset, and main has returned after fading the ambient channel and
\* all the rat channels
C35_Witness ==
  /\ ki = 1 /\ pc["sounds"] = Done /\ pc["setter"] = "set_sleep"
  /\ hist.kiOps = <<"set", "ambient", "rats">>
  /\ hist.kiRats = 1..RATS_CHANNELS
  /\ stop


\* C32: while ambient_loop runs, no thread but ambient_loop addresses the
\* ambient channel, and while rats_loop runs, no thread but rats_loop
\* addresses a rat channel.
C32_ChannelsHaveOneUser ==
  /\ chanUse.ambient \subseteq {"ambient"}
  /\ chanUse.rats \subseteq {"rats"}

\* C32 as the code has it: the only other thread that addresses these
\* channels while their loops run is the one running sounds.main, in its
\* KeyboardInterrupt handler and after the handler has set the event
C32_OwnerOrInterruptHandler ==
  /\ chanUse.ambient \subseteq {"ambient", "sounds"}
  /\ chanUse.rats \subseteq {"rats", "sounds"}
  /\ \A ch \in {"ambient", "rats"} :
       "sounds" \in chanUse[ch]
         => /\ ki >= 1 /\ stop
            /\ Len(hist.kiOps) >= 2 /\ hist.kiOps[1] = "set"
  /\ ki = 0 => C32_ChannelsHaveOneUser

\* C32 happens: the handler has faded the ambient channel and the rat
\* channels while ambient_loop and rats_loop, both of which have used their
\* channels, are still running
C32_WitnessHandlerFades ==
  /\ chanUse.ambient = {"ambient", "sounds"}
  /\ chanUse.rats = {"rats", "sounds"}
  /\ Running("ambient") /\ Running("rats")


\* C36: however flicker_breathe ends, by the event or by an exception in the
\* body of its loop, its last two calls on the strip are fill with black
\* and show; and when its first wait finds the event set, no frame has been
\* rendered before the blanking.
C36_StripBlankedOnExit ==
  pc["lighting"] \in {Done, Raised}
    => /\ led.last = <<"fill", "show">>
       /\ led.first = "set" => ~led.rendered

\* C36 happens: an exception left the loop after part of a frame was written,
\* and the strip was blanked after it
C36_WitnessException ==
  /\ pc["lighting"] = Raised
  /\ led.rendered /\ led.first = "unset"
  /\ led.last = <<"fill", "show">>
  /\ ~stop

\* C36 happens: the event was set on entry, and the strip was blanked with no
\* frame rendered
C36_WitnessSetOnEntry ==
  /\ pc["lighting"] = Done
  /\ led.first = "set" /\ ~led.rendered
  /\ led.last = <<"fill", "show">>


\* C38: whenever control has left play_video_loop, by return or by an
\* exception, no subprocess it launched is still running without having been
\* sent terminate.
C38_NoProcessLeftRunning ==
  (cfg.prog = "video" /\ pc["main"] \in Finished) => alive = {}

\* C38, the part that holds: without a KeyboardInterrupt, play_video_loop
\* leaves no subprocess running
C38_NoLeakWithoutInterrupt ==
  (cfg.prog = "video" /\ pc["main"] \in Finished /\ ki = 0) => alive = {}

\* C38, the divergence: one KeyboardInterrupt arrived during the sleep that
\* follows Popen; play_video_loop has returned, its cleanup found no running
\* process, and the subprocess just launched is running
C38_LeakAfterGraceSleep ==
  /\ cfg.prog = "video" /\ pc["main"] = Done /\ ki = 1
  /\ hist.none = "interrupt"
  /\ hist.cleanup.terms = 0
  /\ alive # {}

\* C38, the divergence: one KeyboardInterrupt arrived during the event wait
\* of run_video_loop; the exception has left play_video_loop, cleanup_process
\* was never called and the player is running
C38_LeakAfterWait ==
  /\ cfg.prog = "video" /\ pc["main"] = Raised /\ ki = 1
  /\ hist.none = "no"
  /\ hist.cleanup = NoCleanup
  /\ process \in alive


\* C40: between the call of handle_shutdown and its return no new video
\* subprocess is launched: handle_shutdown does not start the video
\* supervisor again.
C40_ShutdownLaunchesNothing ==
  [][InShutdown => alive' \subseteq alive]_vars

\* C40, the part that holds: handle_shutdown launches no player when video is
\* disabled, when there is no display, or when the event is already set
C40_NoLaunchWithoutVideo ==
  [][(InShutdown /\ (cfg.no_video \/ cfg.headless \/ stop))
       => alive' \subseteq alive]_vars

\* C40, the divergence: handle_shutdown has called video_loop.main, which has
\* launched a player that is running, the event still unset
C40_LaunchInShutdown ==
  /\ cfg.prog = "orchestrator"
  /\ phase = "shutdown" /\ pc["main"] = "v_grace"
  /\ new_process \in alive
  /\ hist.calls = 1
  /\ ~stop


\* C39: when handle_shutdown has returned, every sound loop thread started
\* by sounds.main has ended, not only the thread that runs sounds.main.
C39_LoopsEndedAtShutdown ==
  (pc["main"] = Done /\ hist.shut)
    => \A t \in SoundLoops : ~Running(t)

\* C39, the part that holds: when handle_shutdown has returned with every
\* join successful, the threads of start_threads have ended and the event is
\* set, so that each loop thread ends at its next look at the event
C39_JoinedThreadsEnded ==
  (pc["main"] = Done /\ hist.shut /\ ~hist.joinErrs)
    => /\ stop
       /\ \A i \in 1..Len(threads) : pc[threads[i]] \in Finished

\* C39, the divergence: handle_shutdown has returned after joining a
\* soundscape thread that has ended, and a loop thread that sounds.main
\* started is still running
C39_LoopRunsAfterShutdown ==
  /\ pc["main"] = Done /\ hist.shut /\ ~hist.joinErrs
  /\ pc["sounds"] = Done
  /\ \E t \in SoundLoops : hist.spawns[t] = 1 /\ Running(t)
====
